---------------------------- MODULE Spec2Model ----------------------------
(***************************************************************************)
(* A model of the bonding-curve, pair and router contracts of the          *)
(* ectoplasm launchpad (contracts/bonding-curve, contracts/pair,           *)
(* contracts/router).                                                      *)
(*                                                                         *)
(* Every entry point runs inside one deploy.  runtime::revert (and a       *)
(* panic of the checked U256/U512 arithmetic) aborts the whole deploy, and *)
(* the execution engine discards every write the deploy made.  The model   *)
(* keeps the live storage in bc / pair / bal and, while a deploy is in     *)
(* progress, the storage as it was when the deploy began in tx.saved.      *)
(*                                                                         *)
(* The two contracts share no storage and never call each other (the DEX   *)
(* integration of graduate() is a TODO, bonding-curve/src/main.rs:602), so *)
(* a behaviour exercises one of them; `contract` says which.  The router   *)
(* trades over pairs of its own world (the variable router), under         *)
(* RouterSpec; its quote entry points, which read no storage, are explored *)
(* under QuoteSpec.                                                        *)
(*                                                                         *)
(* TLC integers are 32 bits wide, so the 18-decimal fixed-point scale of   *)
(* curves.rs is modelled with a 3-decimal PRECISION and a 1-decimal        *)
(* TOKEN_DECIMALS; every formula is otherwise the code's, operation by     *)
(* operation, with the code's integer truncation.                          *)
(***************************************************************************)
EXTENDS Integers, Sequences, FiniteSets, TLC

VARIABLES
    contract,   \* "bonding_curve", "pair" or "router": the contract this behaviour drives
    bc,         \* named keys of the bonding-curve contract
    now,        \* runtime::get_blocktime()
    pair,       \* named keys and dictionaries of the pair contract
    bal,        \* token0 / token1 balances the token contracts hold for the pair
    deposits,   \* how many transfers to the pair the token contracts have made
    tx,         \* the deploy in progress: call stack and storage at its start
    last,       \* outcome of the entry point that finished in the last step
    refunded,   \* history: the accounts whose claim_refund has succeeded
    router      \* the pools and token balances the router contract trades over

vars == <<contract, bc, now, pair, bal, deposits, tx, last, refunded, router>>

----------------------------------------------------------------------------
(* Bounds of the model *)

MaxTime == 1          \* block time runs 0 .. MaxTime
MaxContribution == 40 \* buy is not explored once the buyer's purchases would pass this
MaxDepth == 2         \* deepest call stack explored
MaxDeposits == 4      \* transfers of tokens to the pair that are explored
MaxQuote == 6         \* quotes are asked for amounts and reserves 0 .. MaxQuote
MaxRootArg == 300     \* sqrt is tabulated for 0 .. MaxRootArg
MaxSwaps == 3         \* swaps through the router that are explored
MaxCurveSupply == 3   \* the curve functions are called with supplies 0 .. MaxCurveSupply
MaxCurvePrice == 2    \* and with prices 0 .. MaxCurvePrice
MaxCurveFunds == 3    \* and with funds 0 .. MaxCurveFunds

Accounts == {"a1", "a2"}

\* amounts offered to buy (motes) and to sell (token units)
BuyAmounts == {0, 20}
SellAmounts == {0, 17}

----------------------------------------------------------------------------
(* bonding-curve/src/main.rs: constants *)

STATUS_ACTIVE == 0
STATUS_GRADUATED == 1
STATUS_REFUNDING == 2

(* bonding-curve/src/curves.rs *)

Linear == 0
Sigmoid == 1
Steep == 2

PRECISION == 1000

TOKEN_DECIMALS == 10

\* CurveType::from_u8
from_u8(value) == value \in {Linear, Sigmoid, Steep}

\* a linear price that rises by the maximum price instead of the price range
calculate_linear_price_by_max(progress, base_price, max_price, precision) ==
    base_price + (progress * max_price) \div precision

\* a linear price that divides the progress by the precision before it multiplies
calculate_linear_price_divides_first(progress, base_price, max_price, precision) ==
    base_price + (progress \div precision) * (max_price - base_price)

calculate_linear_price(progress, base_price, max_price, precision) ==
    LET price_range == max_price - base_price
    IN  base_price + (progress * price_range) \div precision

calculate_sigmoid_price(progress, base_price, max_price, precision) ==
    LET progress_squared == (progress * progress) \div precision
        three_scaled == 3 * precision
        two_progress == 2 * progress
        factor == IF three_scaled > two_progress
                  THEN three_scaled - two_progress
                  ELSE 0
        sigmoid_progress == (progress_squared * factor) \div precision
        price_range == max_price - base_price
    IN  base_price + (sigmoid_progress * price_range) \div precision

calculate_steep_price(progress, base_price, max_price, precision) ==
    LET steep_progress == (progress * progress) \div precision
        price_range == max_price - base_price
    IN  base_price + (steep_progress * price_range) \div precision

calculate_price(curve_type, tokens_sold, total_supply, base_price, max_price) ==
    IF total_supply = 0 THEN base_price
    ELSE LET precision == PRECISION
             progress == (tokens_sold * precision) \div total_supply
         IN  CASE curve_type = Linear ->
                    calculate_linear_price(progress, base_price, max_price, precision)
               [] curve_type = Sigmoid ->
                    calculate_sigmoid_price(progress, base_price, max_price, precision)
               [] curve_type = Steep ->
                    calculate_steep_price(progress, base_price, max_price, precision)

Min(a, b) == IF a < b THEN a ELSE b

\* the estimate without the cap at the remaining supply
calculate_tokens_for_cspr_uncapped(curve_type, cspr_amount, current_sold, total_supply, base_price, max_price) ==
    IF cspr_amount = 0 \/ total_supply = 0 THEN 0
    ELSE LET current_price == calculate_price(curve_type, current_sold, total_supply,
                                              base_price, max_price)
         IN  IF current_price = 0 THEN 0
             ELSE (cspr_amount * TOKEN_DECIMALS) \div current_price

calculate_tokens_for_cspr(curve_type, cspr_amount, current_sold, total_supply, base_price, max_price) ==
    IF cspr_amount = 0 \/ total_supply = 0 THEN 0
    ELSE LET current_price == calculate_price(curve_type, current_sold, total_supply,
                                              base_price, max_price)
         IN  IF current_price = 0 THEN 0
             ELSE LET tokens_raw == (cspr_amount * TOKEN_DECIMALS) \div current_price
                      remaining == total_supply - current_sold
                      tokens == Min(tokens_raw, remaining)
                  IN  IF tokens > remaining THEN remaining ELSE tokens

calculate_cspr_for_tokens(curve_type, token_amount, current_sold, total_supply, base_price, max_price) ==
    IF token_amount = 0 \/ current_sold = 0 THEN 0
    ELSE LET sell_from == IF current_sold > token_amount
                          THEN current_sold - token_amount
                          ELSE 0
             avg_sold == (current_sold + sell_from) \div 2
             avg_price == calculate_price(curve_type, avg_sold, total_supply,
                                          base_price, max_price)
         IN  (token_amount * avg_price) \div TOKEN_DECIMALS

calculate_curve_integral(curve_type, from_tokens, to_tokens, total_supply, base_price, max_price) ==
    IF from_tokens >= to_tokens \/ total_supply = 0 THEN 0
    ELSE LET token_diff == to_tokens - from_tokens
         IN  IF curve_type = Linear
             THEN LET price_range == max_price - base_price
                      base_cost == base_price * token_diff
                      sum_tokens == from_tokens + to_tokens
                      range_cost == (price_range * token_diff * sum_tokens)
                                        \div (2 * total_supply)
                  IN  (base_cost + range_cost) \div TOKEN_DECIMALS
             ELSE LET mid_tokens == (from_tokens + to_tokens) \div 2
                      mid_price == calculate_price(curve_type, mid_tokens,
                                       total_supply, base_price, max_price)
                  IN  (mid_price * token_diff) \div TOKEN_DECIMALS

\* U512 and U256 are unsigned and their `-` panics when the result would be
\* negative.  Each predicate says where the function of that name panics.
calculate_price_panics(curve_type, tokens_sold, total_supply, base_price, max_price) ==
    total_supply # 0 /\ max_price < base_price

calculate_tokens_for_cspr_panics(curve_type, cspr_amount, current_sold, total_supply, base_price, max_price) ==
    /\ cspr_amount # 0
    /\ total_supply # 0
    /\ \/ calculate_price_panics(curve_type, current_sold, total_supply,
                                 base_price, max_price)
       \/ /\ calculate_price(curve_type, current_sold, total_supply,
                             base_price, max_price) # 0
          /\ total_supply < current_sold

calculate_cspr_for_tokens_panics(curve_type, token_amount, current_sold, total_supply, base_price, max_price) ==
    /\ token_amount # 0
    /\ current_sold # 0
    /\ calculate_price_panics(curve_type, current_sold, total_supply,
                              base_price, max_price)

calculate_curve_integral_panics(curve_type, from_tokens, to_tokens, total_supply, base_price, max_price) ==
    /\ from_tokens < to_tokens
    /\ total_supply # 0
    /\ max_price < base_price

----------------------------------------------------------------------------
(* The deploy in progress *)

NoTx == [stack |-> <<>>, saved |-> <<>>]

Depth == Len(tx.stack)

Top == tx.stack[Len(tx.stack)]

\* the storage a revert restores: the storage the deploy began with
Snapshot == IF Depth = 0
            THEN [bc |-> bc, pair |-> pair, bal |-> bal, refunded |-> refunded]
            ELSE tx.saved

\* depth: the number of entry points that were executing when this one was called
Outcome(op, caller, args, err, ret, depth) ==
    [op |-> op, caller |-> caller, args |-> args, err |-> err, ret |-> ret,
     depth |-> depth]

\* the last step finished no entry point
NoCall == Outcome("none", "none", <<>>, "ok", <<>>, 0)

\* runtime::revert, or a panic: the deploy ends and its writes are discarded
RevertAt(op, caller, args, err, depth) ==
    /\ bc' = Snapshot.bc
    /\ pair' = Snapshot.pair
    /\ bal' = Snapshot.bal
    /\ refunded' = Snapshot.refunded
    /\ tx' = NoTx
    /\ last' = Outcome(op, caller, args, err, <<>>, depth)
    /\ UNCHANGED <<contract, router, now, deposits>>

\* an entry point called at the current depth reverts
Revert(op, caller, args, err) == RevertAt(op, caller, args, err, Depth)

\* the entry point executing on top of the stack reverts
RevertTop(err) == RevertAt(Top.op, Top.caller, Top.args, err, Depth - 1)

\* the entry point on top of the stack returns
Pop == IF Depth = 1 THEN NoTx
       ELSE [tx EXCEPT !.stack = SubSeq(tx.stack, 1, Depth - 1)]

\* an entry point calls another contract and waits for it to return
Push(frame) == [stack |-> Append(tx.stack, frame), saved |-> Snapshot]

Res(err, st, ret) == [err |-> err, st |-> st, ret |-> ret]

----------------------------------------------------------------------------
(* bonding-curve/src/main.rs *)

\* a guard that lets every status pass
require_active_skipped(s) == TRUE

require_active(s) == s.status = STATUS_ACTIVE

\* a guard that lets a held lock pass
require_unlocked_skipped(s) == TRUE

require_unlocked(s) == ~s.locked

lock(s) == [s EXCEPT !.locked = TRUE]

unlock(s) == [s EXCEPT !.locked = FALSE]

get_current_time == now

\* the named keys written by call().  held is no named key: it is the account
\* of the funds buys have paid in less the funds paid out as platform fees,
\* sell returns, refunds and withdrawals of creator fees.
InitBc(curve_type, platform_fee_bps, creator_fee_bps) ==
    [ creator |-> "a1",
      curve_type |-> curve_type,
      graduation_threshold |-> 40,
      platform_fee_bps |-> platform_fee_bps,
      creator_fee_bps |-> creator_fee_bps,
      deadline |-> 1,
      cspr_raised |-> 0,
      tokens_sold |-> 0,
      total_supply |-> 25,
      base_price |-> 10,
      max_price |-> 30,
      status |-> STATUS_ACTIVE,
      promo_budget |-> 4,
      promo_released |-> 0,
      accumulated_fees |-> 0,
      purchases |-> [a \in Accounts |-> 0],
      locked |-> FALSE,
      held |-> 0 ]

\* a buy that neither caps the tokens at the remaining supply nor checks it
buy_uncapped(s, caller, cspr_amount) ==
    IF ~require_active(s) THEN Res("CurveNotActive", s, <<>>)
    ELSE IF ~require_unlocked(s) THEN Res("LockedReentrancy", s, <<>>)
    ELSE IF cspr_amount = 0 THEN Res("InvalidAmount", s, <<>>)
    ELSE
    LET platform_fee == (cspr_amount * s.platform_fee_bps) \div 10000
        creator_fee == (cspr_amount * s.creator_fee_bps) \div 10000
        cspr_for_curve == cspr_amount - platform_fee - creator_fee
        tokens_to_buy == calculate_tokens_for_cspr_uncapped(s.curve_type,
                             cspr_for_curve, s.tokens_sold, s.total_supply,
                             s.base_price, s.max_price)
    IN  IF tokens_to_buy = 0 THEN Res("InvalidAmount", s, <<>>)
        ELSE Res("ok",
                 [lock(s) EXCEPT
                    !.tokens_sold = s.tokens_sold + tokens_to_buy,
                    !.cspr_raised = s.cspr_raised + cspr_for_curve,
                    !.accumulated_fees = s.accumulated_fees + creator_fee,
                    !.purchases[caller] = s.purchases[caller] + cspr_for_curve,
                    !.held = s.held + cspr_amount - platform_fee],
                 <<tokens_to_buy, platform_fee>>)

\* a buy that records the amount paid, fees included, as the purchase
buy_records_gross(s, caller, cspr_amount) ==
    IF ~require_active(s) THEN Res("CurveNotActive", s, <<>>)
    ELSE IF ~require_unlocked(s) THEN Res("LockedReentrancy", s, <<>>)
    ELSE IF cspr_amount = 0 THEN Res("InvalidAmount", s, <<>>)
    ELSE
    LET platform_fee == (cspr_amount * s.platform_fee_bps) \div 10000
        creator_fee == (cspr_amount * s.creator_fee_bps) \div 10000
    IN  IF platform_fee + creator_fee > cspr_amount THEN Res("Panic", s, <<>>)
        ELSE
    LET cspr_for_curve == cspr_amount - platform_fee - creator_fee
        tokens_to_buy == calculate_tokens_for_cspr(s.curve_type, cspr_for_curve,
                             s.tokens_sold, s.total_supply, s.base_price, s.max_price)
        remaining == s.total_supply - s.tokens_sold
    IN  IF ~from_u8(s.curve_type) THEN Res("Panic", s, <<>>)
        ELSE IF tokens_to_buy = 0 THEN Res("InvalidAmount", s, <<>>)
        ELSE IF tokens_to_buy > remaining THEN Res("InsufficientLiquidity", s, <<>>)
        ELSE Res("ok",
                 [lock(s) EXCEPT
                    !.tokens_sold = s.tokens_sold + tokens_to_buy,
                    !.cspr_raised = s.cspr_raised + cspr_for_curve,
                    !.accumulated_fees = s.accumulated_fees + creator_fee,
                    !.purchases[caller] = s.purchases[caller] + cspr_amount,
                    !.held = s.held + cspr_amount - platform_fee],
                 <<tokens_to_buy, platform_fee>>)

\* buy(): from entry up to the writes that record the purchase
buy(s, caller, cspr_amount) ==
    IF ~require_active(s) THEN Res("CurveNotActive", s, <<>>)
    ELSE IF ~require_unlocked(s) THEN Res("LockedReentrancy", s, <<>>)
    ELSE IF cspr_amount = 0 THEN Res("InvalidAmount", s, <<>>)
    ELSE
    LET platform_fee == (cspr_amount * s.platform_fee_bps) \div 10000
        creator_fee == (cspr_amount * s.creator_fee_bps) \div 10000
    IN  IF platform_fee + creator_fee > cspr_amount THEN Res("Panic", s, <<>>)
        ELSE
    LET cspr_for_curve == cspr_amount - platform_fee - creator_fee
        tokens_to_buy == calculate_tokens_for_cspr(s.curve_type, cspr_for_curve,
                             s.tokens_sold, s.total_supply, s.base_price, s.max_price)
        remaining == s.total_supply - s.tokens_sold
    IN  IF ~from_u8(s.curve_type) THEN Res("Panic", s, <<>>)
        ELSE IF tokens_to_buy = 0 THEN Res("InvalidAmount", s, <<>>)
        ELSE IF tokens_to_buy > remaining THEN Res("InsufficientLiquidity", s, <<>>)
        ELSE Res("ok",
                 [lock(s) EXCEPT
                    !.tokens_sold = s.tokens_sold + tokens_to_buy,
                    !.cspr_raised = s.cspr_raised + cspr_for_curve,
                    !.accumulated_fees = s.accumulated_fees + creator_fee,
                    !.purchases[caller] = s.purchases[caller] + cspr_for_curve,
                    !.held = s.held + cspr_amount - platform_fee],
                 <<tokens_to_buy, platform_fee>>)

\* a sell that writes tokens_sold and cspr_raised before it calls burn
sell_writes_first(s, caller, token_amount) ==
    IF ~require_active(s) THEN Res("CurveNotActive", s, <<>>)
    ELSE IF ~require_unlocked(s) THEN Res("LockedReentrancy", s, <<>>)
    ELSE IF token_amount = 0 THEN Res("InvalidAmount", s, <<>>)
    ELSE IF ~from_u8(s.curve_type) THEN Res("Panic", s, <<>>)
    ELSE IF token_amount > s.tokens_sold THEN Res("InsufficientTokens", s, <<>>)
    ELSE
    LET cspr_raw == calculate_cspr_for_tokens(s.curve_type, token_amount,
                        s.tokens_sold, s.total_supply, s.base_price, s.max_price)
        platform_fee == (cspr_raw * s.platform_fee_bps) \div 10000
        creator_fee == (cspr_raw * s.creator_fee_bps) \div 10000
    IN  IF platform_fee + creator_fee > cspr_raw THEN Res("Panic", s, <<>>)
        ELSE
    LET cspr_to_return == cspr_raw - platform_fee - creator_fee
    IN  IF cspr_to_return > s.cspr_raised THEN Res("InsufficientLiquidity", s, <<>>)
        ELSE IF cspr_raw > s.cspr_raised THEN Res("Panic", s, <<>>)
        ELSE Res("ok",
                 [lock(s) EXCEPT !.tokens_sold = s.tokens_sold - token_amount,
                                 !.cspr_raised = s.cspr_raised - cspr_raw],
                 [token_amount |-> token_amount, tokens_sold |-> s.tokens_sold,
                  cspr_raised |-> s.cspr_raised, cspr_raw |-> cspr_raw,
                  platform_fee |-> platform_fee, creator_fee |-> creator_fee,
                  cspr_to_return |-> cspr_to_return])

\* a sell that does not look at the status
sell_any_status(s, caller, token_amount) ==
    IF ~require_unlocked(s) THEN Res("LockedReentrancy", s, <<>>)
    ELSE IF token_amount = 0 THEN Res("InvalidAmount", s, <<>>)
    ELSE IF token_amount > s.tokens_sold THEN Res("InsufficientTokens", s, <<>>)
    ELSE
    LET cspr_raw == calculate_cspr_for_tokens(s.curve_type, token_amount,
                        s.tokens_sold, s.total_supply, s.base_price, s.max_price)
        platform_fee == (cspr_raw * s.platform_fee_bps) \div 10000
        creator_fee == (cspr_raw * s.creator_fee_bps) \div 10000
        cspr_to_return == cspr_raw - platform_fee - creator_fee
    IN  IF cspr_to_return > s.cspr_raised THEN Res("InsufficientLiquidity", s, <<>>)
        ELSE Res("ok", lock(s),
                 [token_amount |-> token_amount, tokens_sold |-> s.tokens_sold,
                  cspr_raised |-> s.cspr_raised, cspr_raw |-> cspr_raw,
                  platform_fee |-> platform_fee, creator_fee |-> creator_fee,
                  cspr_to_return |-> cspr_to_return])

\* a sell that lets an amount of zero pass
sell_accepts_zero(s, caller, token_amount) ==
    IF ~require_active(s) THEN Res("CurveNotActive", s, <<>>)
    ELSE IF ~require_unlocked(s) THEN Res("LockedReentrancy", s, <<>>)
    ELSE IF ~from_u8(s.curve_type) THEN Res("Panic", s, <<>>)
    ELSE IF token_amount > s.tokens_sold THEN Res("InsufficientTokens", s, <<>>)
    ELSE
    LET cspr_raw == calculate_cspr_for_tokens(s.curve_type, token_amount,
                        s.tokens_sold, s.total_supply, s.base_price, s.max_price)
        platform_fee == (cspr_raw * s.platform_fee_bps) \div 10000
        creator_fee == (cspr_raw * s.creator_fee_bps) \div 10000
    IN  IF platform_fee + creator_fee > cspr_raw THEN Res("Panic", s, <<>>)
        ELSE
    LET cspr_to_return == cspr_raw - platform_fee - creator_fee
    IN  IF cspr_to_return > s.cspr_raised THEN Res("InsufficientLiquidity", s, <<>>)
        ELSE Res("ok", lock(s),
                 [token_amount |-> token_amount, tokens_sold |-> s.tokens_sold,
                  cspr_raised |-> s.cspr_raised, cspr_raw |-> cspr_raw,
                  platform_fee |-> platform_fee, creator_fee |-> creator_fee,
                  cspr_to_return |-> cspr_to_return])

\* sell(): from entry up to the call of the token contract's burn
sell(s, caller, token_amount) ==
    IF ~require_active(s) THEN Res("CurveNotActive", s, <<>>)
    ELSE IF ~require_unlocked(s) THEN Res("LockedReentrancy", s, <<>>)
    ELSE IF token_amount = 0 THEN Res("InvalidAmount", s, <<>>)
    ELSE IF ~from_u8(s.curve_type) THEN Res("Panic", s, <<>>)
    ELSE IF token_amount > s.tokens_sold THEN Res("InsufficientTokens", s, <<>>)
    ELSE
    LET cspr_raw == calculate_cspr_for_tokens(s.curve_type, token_amount,
                        s.tokens_sold, s.total_supply, s.base_price, s.max_price)
        platform_fee == (cspr_raw * s.platform_fee_bps) \div 10000
        creator_fee == (cspr_raw * s.creator_fee_bps) \div 10000
    IN  IF platform_fee + creator_fee > cspr_raw THEN Res("Panic", s, <<>>)
        ELSE
    LET cspr_to_return == cspr_raw - platform_fee - creator_fee
    IN  IF cspr_to_return > s.cspr_raised THEN Res("InsufficientLiquidity", s, <<>>)
        ELSE Res("ok", lock(s),
                 [token_amount |-> token_amount, tokens_sold |-> s.tokens_sold,
                  cspr_raised |-> s.cspr_raised, cspr_raw |-> cspr_raw,
                  platform_fee |-> platform_fee, creator_fee |-> creator_fee,
                  cspr_to_return |-> cspr_to_return])

\* sell(): the writes after burn has returned; l holds the values sell read before
sell_update(s, l) ==
    IF l.token_amount > l.tokens_sold \/ l.cspr_raw > l.cspr_raised
    THEN Res("Panic", s, <<>>)
    ELSE Res("ok",
             [s EXCEPT !.tokens_sold = l.tokens_sold - l.token_amount,
                       !.cspr_raised = l.cspr_raised - l.cspr_raw,
                       !.accumulated_fees = s.accumulated_fees + l.creator_fee,
                       !.held = s.held - l.cspr_to_return - l.platform_fee],
             <<l.cspr_to_return, l.platform_fee>>)

\* the tokens cspr_amount buys once the two fees, taken as one, are deducted
get_quote_buy(s, cspr_amount) ==
    IF ~from_u8(s.curve_type) THEN Res("Panic", s, <<>>)
    ELSE
    LET total_fee_bps == s.platform_fee_bps + s.creator_fee_bps
        fee == (cspr_amount * total_fee_bps) \div 10000
    IN  IF fee > cspr_amount THEN Res("Panic", s, <<>>)
        ELSE
    LET cspr_after_fee == cspr_amount - fee
    IN  IF calculate_tokens_for_cspr_panics(s.curve_type, cspr_after_fee, s.tokens_sold,
                                            s.total_supply, s.base_price, s.max_price)
        THEN Res("Panic", s, <<>>)
        ELSE Res("ok", s,
                 <<calculate_tokens_for_cspr(s.curve_type, cspr_after_fee, s.tokens_sold,
                                             s.total_supply, s.base_price, s.max_price)>>)

\* the funds token_amount sells for once the two fees, taken as one, are
\* deducted
get_quote_sell(s, token_amount) ==
    IF ~from_u8(s.curve_type) THEN Res("Panic", s, <<>>)
    ELSE IF calculate_cspr_for_tokens_panics(s.curve_type, token_amount, s.tokens_sold,
                                             s.total_supply, s.base_price, s.max_price)
    THEN Res("Panic", s, <<>>)
    ELSE
    LET cspr_raw == calculate_cspr_for_tokens(s.curve_type, token_amount,
                        s.tokens_sold, s.total_supply, s.base_price, s.max_price)
        total_fee_bps == s.platform_fee_bps + s.creator_fee_bps
        fee == (cspr_raw * total_fee_bps) \div 10000
    IN  IF fee > cspr_raw THEN Res("Panic", s, <<>>)
        ELSE Res("ok", s, <<cspr_raw - fee>>)

\* a refund that pays but leaves the purchase record as it was
claim_refund_keeps_record(s, caller, current_time) ==
    IF ~require_unlocked(s) THEN Res("LockedReentrancy", s, <<>>)
    ELSE IF s.status = STATUS_GRADUATED THEN Res("RefundNotAvailable", s, <<>>)
    ELSE IF current_time < s.deadline THEN Res("DeadlineNotReached", s, <<>>)
    ELSE
    LET s1 == IF s.status = STATUS_ACTIVE
              THEN [lock(s) EXCEPT !.status = STATUS_REFUNDING]
              ELSE lock(s)
        purchase_amount == s1.purchases[caller]
    IN  IF purchase_amount = 0 THEN Res("NoRefundAvailable", s, <<>>)
        ELSE Res("ok", unlock([s1 EXCEPT !.held = s.held - purchase_amount]),
                 <<purchase_amount>>)

\* a refund that does not wait for the deadline
claim_refund_no_deadline(s, caller, current_time) ==
    IF ~require_unlocked(s) THEN Res("LockedReentrancy", s, <<>>)
    ELSE IF s.status = STATUS_GRADUATED THEN Res("RefundNotAvailable", s, <<>>)
    ELSE
    LET s1 == IF s.status = STATUS_ACTIVE
              THEN [lock(s) EXCEPT !.status = STATUS_REFUNDING]
              ELSE lock(s)
        purchase_amount == s1.purchases[caller]
    IN  IF purchase_amount = 0 THEN Res("NoRefundAvailable", s, <<>>)
        ELSE Res("ok", unlock([s1 EXCEPT !.purchases[caller] = 0,
                                         !.held = s.held - purchase_amount]),
                 <<purchase_amount>>)

claim_refund(s, caller, current_time) ==
    IF ~require_unlocked(s) THEN Res("LockedReentrancy", s, <<>>)
    ELSE IF s.status = STATUS_GRADUATED THEN Res("RefundNotAvailable", s, <<>>)
    ELSE IF current_time < s.deadline THEN Res("DeadlineNotReached", s, <<>>)
    ELSE
    LET s1 == IF s.status = STATUS_ACTIVE
              THEN [lock(s) EXCEPT !.status = STATUS_REFUNDING]
              ELSE lock(s)
        purchase_amount == s1.purchases[caller]
    IN  IF purchase_amount = 0 THEN Res("NoRefundAvailable", s, <<>>)
        ELSE Res("ok", unlock([s1 EXCEPT !.purchases[caller] = 0,
                                         !.held = s.held - purchase_amount]),
                 <<purchase_amount>>)

\* a graduation that does not look at the threshold
graduate_unchecked(s) ==
    IF ~require_active(s) THEN Res("CurveNotActive", s, <<>>)
    ELSE IF ~require_unlocked(s) THEN Res("LockedReentrancy", s, <<>>)
    ELSE Res("ok", unlock([lock(s) EXCEPT !.status = STATUS_GRADUATED]), <<TRUE>>)

graduate(s) ==
    IF ~require_active(s) THEN Res("CurveNotActive", s, <<>>)
    ELSE IF ~require_unlocked(s) THEN Res("LockedReentrancy", s, <<>>)
    ELSE IF s.cspr_raised < s.graduation_threshold
         THEN Res("GraduationThresholdNotMet", s, <<>>)
    ELSE Res("ok", unlock([lock(s) EXCEPT !.status = STATUS_GRADUATED]), <<TRUE>>)

withdraw_fees(s, caller) ==
    IF caller # s.creator THEN Res("Unauthorized", s, <<>>)
    ELSE IF s.accumulated_fees = 0 THEN Res("NoPromoToWithdraw", s, <<>>)
    ELSE Res("ok", [s EXCEPT !.accumulated_fees = 0,
                             !.held = s.held - s.accumulated_fees],
             <<s.accumulated_fees>>)

\* a claim that releases the whole entitlement again, not what is left of it
claim_promo_milestone_releases_all(s, caller) ==
    IF caller # s.creator THEN Res("Unauthorized", s, <<>>)
    ELSE
    LET progress_pct == IF s.graduation_threshold = 0 THEN 0
                        ELSE Min((s.cspr_raised * 100) \div s.graduation_threshold, 100)
        entitled_pct == IF progress_pct >= 100 THEN 100
                        ELSE IF progress_pct >= 75 THEN 75
                        ELSE IF progress_pct >= 50 THEN 50
                        ELSE IF progress_pct >= 25 THEN 25
                        ELSE 0
        entitled_amount == (s.promo_budget * entitled_pct) \div 100
    IN  IF entitled_amount <= s.promo_released
        THEN Res("MilestoneNotUnlocked", s, <<>>)
        ELSE Res("ok", [s EXCEPT !.promo_released = s.promo_released + entitled_amount],
                 <<entitled_amount>>)

claim_promo_milestone(s, caller) ==
    IF caller # s.creator THEN Res("Unauthorized", s, <<>>)
    ELSE
    LET progress_pct == IF s.graduation_threshold = 0 THEN 0
                        ELSE Min((s.cspr_raised * 100) \div s.graduation_threshold, 100)
        entitled_pct == IF progress_pct >= 100 THEN 100
                        ELSE IF progress_pct >= 75 THEN 75
                        ELSE IF progress_pct >= 50 THEN 50
                        ELSE IF progress_pct >= 25 THEN 25
                        ELSE 0
        entitled_amount == (s.promo_budget * entitled_pct) \div 100
        claimable == IF entitled_amount > s.promo_released
                     THEN entitled_amount - s.promo_released
                     ELSE 0
    IN  IF claimable = 0 THEN Res("MilestoneNotUnlocked", s, <<>>)
        ELSE Res("ok", [s EXCEPT !.promo_released = s.promo_released + claimable],
                 <<claimable>>)

----------------------------------------------------------------------------
(* pair/src/main.rs *)

MINIMUM_LIQUIDITY == 1000

ZERO_KEY == "zero"      \* Key::Hash([0u8; 32]), where the minimum liquidity is locked
SELF_KEY == "pair"      \* the key of the pair contract itself

Keys == Accounts \cup {ZERO_KEY, SELF_KEY}

\* the named keys and dictionaries written by call()
InitPair ==
    [ reserve0 |-> 0,
      reserve1 |-> 0,
      lp_total_supply |-> 0,
      lp_balances |-> [k \in Keys |-> 0],
      lp_allowances |-> [o \in Keys |-> [sp \in Keys |-> 0]],
      locked |-> FALSE ]

read_lp_balance(p, owner) == p.lp_balances[owner]

write_lp_balance(p, owner, amount) == [p EXCEPT !.lp_balances[owner] = amount]

read_lp_allowance(p, owner, spender) == p.lp_allowances[owner][spender]

write_lp_allowance(p, owner, spender, amount) ==
    [p EXCEPT !.lp_allowances[owner][spender] = amount]

mint_lp(p, to, amount) ==
    LET p1 == write_lp_balance(p, to, read_lp_balance(p, to) + amount)
    IN  [p1 EXCEPT !.lp_total_supply = p1.lp_total_supply + amount]

burn_lp(p, from, amount) ==
    LET balance == read_lp_balance(p, from)
    IN  IF balance < amount THEN Res("InsufficientBalance", p, <<>>)
        ELSE IF p.lp_total_supply < amount THEN Res("Panic", p, <<>>)
        ELSE LET p1 == write_lp_balance(p, from, balance - amount)
             IN  Res("ok", [p1 EXCEPT !.lp_total_supply = p1.lp_total_supply - amount],
                     <<>>)

\* a transfer that reads the recipient's balance before it writes the sender's
transfer_lp_internal_stale(p, sender, recipient, amount) ==
    LET sender_balance == read_lp_balance(p, sender)
        recipient_balance == read_lp_balance(p, recipient)
    IN  IF sender_balance < amount THEN Res("InsufficientBalance", p, <<>>)
        ELSE Res("ok",
                 write_lp_balance(write_lp_balance(p, sender, sender_balance - amount),
                                  recipient, recipient_balance + amount),
                 <<>>)

transfer_lp_internal(p, sender, recipient, amount) ==
    LET sender_balance == read_lp_balance(p, sender)
    IN  IF sender_balance < amount THEN Res("InsufficientBalance", p, <<>>)
        ELSE LET p1 == write_lp_balance(p, sender, sender_balance - amount)
             IN  Res("ok",
                     write_lp_balance(p1, recipient,
                                      read_lp_balance(p1, recipient) + amount),
                     <<>>)

\* the reentrancy guard: lock() reverts with ERROR_LOCKED when the flag is set
pair_lock(p) == ~p.locked

\* an update_reserves that writes token0's balance only
update_reserves_of_token0(p, balance0, balance1) ==
    [p EXCEPT !.reserve0 = balance0]

update_reserves(p, balance0, balance1) ==
    [p EXCEPT !.reserve0 = balance0, !.reserve1 = balance1]

\* Newton's iteration of sqrt(), from the state (z, x) of its loop
RECURSIVE sqrt_loop(_, _, _)
sqrt_loop(y, z, x) ==
    IF x < z THEN sqrt_loop(y, x, (y \div x + x) \div 2) ELSE z

\* a square root that stops at the first guess of the iteration
sqrt_first_guess(y) ==
    IF y > 3 THEN y \div 2 + 1
    ELSE IF y # 0 THEN 1
    ELSE 0

sqrt(y) ==
    IF y > 3 THEN sqrt_loop(y, y, y \div 2 + 1)
    ELSE IF y # 0 THEN 1
    ELSE 0

\* a * b >= c * d for natural numbers, decided as the U256 products decide it.
\* The products pass 2^31, so the two quotients a/c and d/b are compared by
\* their continued fractions instead of multiplying out.
RECURSIVE FracGe(_, _, _, _)
FracGe(a, c, d, b) ==
    \* a/c >= d/b, with c > 0 and b > 0
    LET q1 == a \div c
        q2 == d \div b
        r1 == a % c
        r2 == d % b
    IN  IF q1 # q2 THEN q1 > q2
        ELSE IF r2 = 0 THEN TRUE
        ELSE IF r1 = 0 THEN FALSE
        ELSE FracGe(b, r2, c, r1)

ProductGe(a, b, c, d) ==
    IF c = 0 \/ d = 0 THEN TRUE
    ELSE IF a = 0 \/ b = 0 THEN FALSE
    ELSE FracGe(a, c, d, b)

\* a mint that locks no minimum liquidity on the first deposit
mint_nothing_locked(p, to, l, balance0, balance1) ==
    IF balance0 < l.reserve0 \/ balance1 < l.reserve1 THEN Res("Panic", p, <<>>)
    ELSE
    LET amount0 == balance0 - l.reserve0
        amount1 == balance1 - l.reserve1
        total_supply == p.lp_total_supply
    IN  IF total_supply = 0
        THEN LET product == amount0 * amount1
             IN  IF sqrt(product) < MINIMUM_LIQUIDITY THEN Res("Panic", p, <<>>)
                 ELSE
                 LET liquidity == sqrt(product) - MINIMUM_LIQUIDITY
                     p1 == p
                 IN  IF liquidity = 0 THEN Res("InsufficientLiquidityMinted", p, <<>>)
                     ELSE Res("ok",
                              update_reserves(mint_lp(p1, to, liquidity),
                                              balance0, balance1),
                              <<liquidity>>)
        ELSE IF l.reserve0 = 0 \/ l.reserve1 = 0 THEN Res("Panic", p, <<>>)
        ELSE
        LET liquidity0 == (amount0 * total_supply) \div l.reserve0
            liquidity1 == (amount1 * total_supply) \div l.reserve1
            liquidity == Min(liquidity0, liquidity1)
        IN  IF liquidity = 0 THEN Res("InsufficientLiquidityMinted", p, <<>>)
            ELSE Res("ok",
                     update_reserves(mint_lp(p, to, liquidity), balance0, balance1),
                     <<liquidity>>)

\* a mint that credits the larger of the two shares
mint_larger_share(p, to, l, balance0, balance1) ==
    IF balance0 < l.reserve0 \/ balance1 < l.reserve1 THEN Res("Panic", p, <<>>)
    ELSE
    LET amount0 == balance0 - l.reserve0
        amount1 == balance1 - l.reserve1
        total_supply == p.lp_total_supply
    IN  IF total_supply = 0
        THEN LET product == amount0 * amount1
             IN  IF sqrt(product) < MINIMUM_LIQUIDITY THEN Res("Panic", p, <<>>)
                 ELSE
                 LET liquidity == sqrt(product) - MINIMUM_LIQUIDITY
                     p1 == mint_lp(p, ZERO_KEY, MINIMUM_LIQUIDITY)
                 IN  IF liquidity = 0 THEN Res("InsufficientLiquidityMinted", p, <<>>)
                     ELSE Res("ok",
                              update_reserves(mint_lp(p1, to, liquidity),
                                              balance0, balance1),
                              <<liquidity>>)
        ELSE IF l.reserve0 = 0 \/ l.reserve1 = 0 THEN Res("Panic", p, <<>>)
        ELSE
        LET liquidity0 == (amount0 * total_supply) \div l.reserve0
            liquidity1 == (amount1 * total_supply) \div l.reserve1
            liquidity == IF liquidity0 > liquidity1 THEN liquidity0 ELSE liquidity1
        IN  IF liquidity = 0 THEN Res("InsufficientLiquidityMinted", p, <<>>)
            ELSE Res("ok",
                     update_reserves(mint_lp(p, to, liquidity), balance0, balance1),
                     <<liquidity>>)

\* mint(): after the two balance_of calls have returned balance0 and balance1;
\* l holds the reserves mint read before them
mint(p, to, l, balance0, balance1) ==
    IF balance0 < l.reserve0 \/ balance1 < l.reserve1 THEN Res("Panic", p, <<>>)
    ELSE
    LET amount0 == balance0 - l.reserve0
        amount1 == balance1 - l.reserve1
        total_supply == p.lp_total_supply
    IN  IF total_supply = 0
        THEN LET product == amount0 * amount1
             IN  IF sqrt(product) < MINIMUM_LIQUIDITY THEN Res("Panic", p, <<>>)
                 ELSE
                 LET liquidity == sqrt(product) - MINIMUM_LIQUIDITY
                     p1 == mint_lp(p, ZERO_KEY, MINIMUM_LIQUIDITY)
                 IN  IF liquidity = 0 THEN Res("InsufficientLiquidityMinted", p, <<>>)
                     ELSE Res("ok",
                              update_reserves(mint_lp(p1, to, liquidity),
                                              balance0, balance1),
                              <<liquidity>>)
        ELSE IF l.reserve0 = 0 \/ l.reserve1 = 0 THEN Res("Panic", p, <<>>)
        ELSE
        LET liquidity0 == (amount0 * total_supply) \div l.reserve0
            liquidity1 == (amount1 * total_supply) \div l.reserve1
            liquidity == Min(liquidity0, liquidity1)
        IN  IF liquidity = 0 THEN Res("InsufficientLiquidityMinted", p, <<>>)
            ELSE Res("ok",
                     update_reserves(mint_lp(p, to, liquidity), balance0, balance1),
                     <<liquidity>>)

\* a burn that rounds the two amounts up
burn_rounds_up(p, balance0, balance1) ==
    LET liquidity == read_lp_balance(p, SELF_KEY)
        total_supply == p.lp_total_supply
    IN  IF total_supply = 0 THEN Res("Panic", p, <<>>)
        ELSE
        LET amount0 == (liquidity * balance0 + total_supply - 1) \div total_supply
            amount1 == (liquidity * balance1 + total_supply - 1) \div total_supply
        IN  IF amount0 = 0 \/ amount1 = 0
            THEN Res("InsufficientLiquidityBurned", p, <<>>)
            ELSE LET r == burn_lp(p, SELF_KEY, liquidity)
                 IN  IF r.err # "ok" THEN r
                     ELSE Res("ok", r.st, <<amount0, amount1>>)

\* a burn that pays a share of the reserves, not of the balances
burn_share_of_reserves(p, balance0, balance1) ==
    LET liquidity == read_lp_balance(p, SELF_KEY)
        total_supply == p.lp_total_supply
    IN  IF total_supply = 0 THEN Res("Panic", p, <<>>)
        ELSE
        LET amount0 == (liquidity * p.reserve0) \div total_supply
            amount1 == (liquidity * p.reserve1) \div total_supply
        IN  IF amount0 = 0 \/ amount1 = 0
            THEN Res("InsufficientLiquidityBurned", p, <<>>)
            ELSE LET r == burn_lp(p, SELF_KEY, liquidity)
                 IN  IF r.err # "ok" THEN r
                     ELSE Res("ok", r.st, <<amount0, amount1>>)

\* burn(): from the balances read at entry to the burning of the LP tokens
burn(p, balance0, balance1) ==
    LET liquidity == read_lp_balance(p, SELF_KEY)
        total_supply == p.lp_total_supply
    IN  IF total_supply = 0 THEN Res("Panic", p, <<>>)
        ELSE
        LET amount0 == (liquidity * balance0) \div total_supply
            amount1 == (liquidity * balance1) \div total_supply
        IN  IF amount0 = 0 \/ amount1 = 0
            THEN Res("InsufficientLiquidityBurned", p, <<>>)
            ELSE LET r == burn_lp(p, SELF_KEY, liquidity)
                 IN  IF r.err # "ok" THEN r
                     ELSE Res("ok", r.st, <<amount0, amount1>>)

\* a swap that lets a whole reserve be taken out
swap_whole_reserve(p, amount0_out, amount1_out) ==
    IF amount0_out = 0 /\ amount1_out = 0 THEN "InsufficientOutputAmount"
    ELSE IF amount0_out > p.reserve0 \/ amount1_out > p.reserve1
         THEN "InsufficientLiquidity"
    ELSE "ok"

\* swap(): the checks before the optimistic transfers
swap(p, amount0_out, amount1_out) ==
    IF amount0_out = 0 /\ amount1_out = 0 THEN "InsufficientOutputAmount"
    ELSE IF amount0_out >= p.reserve0 \/ amount1_out >= p.reserve1
         THEN "InsufficientLiquidity"
    ELSE "ok"

\* a K check that leaves the 0.3% fee out
k_check_no_fee(balance0, balance1, amount0_in, amount1_in, reserve0, reserve1) ==
    ProductGe(balance0 * 1000, balance1 * 1000, reserve0 * reserve1, 1000 * 1000)

\* swap(): k_after >= k_before
k_check(balance0, balance1, amount0_in, amount1_in, reserve0, reserve1) ==
    LET balance0_adjusted == balance0 * 1000 - amount0_in * 3
        balance1_adjusted == balance1 * 1000 - amount1_in * 3
    IN  ProductGe(balance0_adjusted, balance1_adjusted,
                  reserve0 * reserve1, 1000 * 1000)

\* swap(): after the transfers, with the balances read back; l holds the
\* reserves and the amounts out.  swap() returns no value: the result carries
\* the inputs it inferred, <<amount0_in, amount1_in>>.
swap_settle(p, l, balance0, balance1) ==
    LET amount0_in == IF balance0 > l.reserve0 - l.amount0_out
                      THEN balance0 - (l.reserve0 - l.amount0_out) ELSE 0
        amount1_in == IF balance1 > l.reserve1 - l.amount1_out
                      THEN balance1 - (l.reserve1 - l.amount1_out) ELSE 0
    IN  IF amount0_in = 0 /\ amount1_in = 0
        THEN Res("InsufficientInputAmount", p, <<>>)
        ELSE IF ~k_check(balance0, balance1, amount0_in, amount1_in,
                         l.reserve0, l.reserve1)
        THEN Res("K", p, <<>>)
        ELSE Res("ok", update_reserves(p, balance0, balance1),
                 <<amount0_in, amount1_in>>)

----------------------------------------------------------------------------
(* Entry points of the bonding-curve contract as steps of a deploy *)

OnCurve == contract = "bonding_curve"

\* an entry point that calls no other contract: it runs to its end in one step.
\* system::transfer_to_account(..).unwrap_or_revert() either pays or reverts.
CurveCall(op, caller, args, r, pays) ==
    IF r.err # "ok" THEN Revert(op, caller, args, r.err)
    ELSE \E transfer_ok \in BOOLEAN :
            IF pays /\ ~transfer_ok THEN Revert(op, caller, args, "TransferFailed")
            ELSE /\ bc' = r.st
                 /\ last' = Outcome(op, caller, args, "ok", r.ret, Depth)
                 /\ refunded' = IF op = "claim_refund" THEN refunded \cup {caller}
                                 ELSE refunded
                 /\ UNCHANGED <<contract, router, now, pair, bal, deposits, tx>>

\* buy() up to runtime::call_contract(token, "mint"): the frame holds the
\* amount to mint to the caller and the fee sent to the platform wallet
BuyEnters(caller, amount) ==
    /\ OnCurve
    /\ Depth < MaxDepth
    /\ LET r == buy(bc, caller, amount)
       IN  IF r.err # "ok" THEN Revert("buy", caller, <<amount>>, r.err)
           ELSE \E transfer_ok \in BOOLEAN :
                   IF r.ret[2] # 0 /\ ~transfer_ok
                   THEN Revert("buy", caller, <<amount>>, "TransferFailed")
                   ELSE /\ bc' = r.st
                        /\ tx' = Push([pc |-> "buy_mint", op |-> "buy",
                                       caller |-> caller, args |-> <<amount>>,
                                       l |-> [tokens_to_buy |-> r.ret[1],
                                              platform_fee |-> r.ret[2]]])
                        /\ last' = NoCall
                        /\ UNCHANGED <<contract, router, now, pair, bal, deposits, refunded>>

\* a buy that keeps the buyer's contributions within the bound
Buy(caller, amount) ==
    /\ bc.purchases[caller] + amount <= MaxContribution
    /\ BuyEnters(caller, amount)

\* mint has returned: unlock() and runtime::ret(tokens_to_buy)
BuyReturn ==
    /\ OnCurve
    /\ Depth > 0
    /\ Top.pc = "buy_mint"
    /\ bc' = unlock(bc)
    /\ tx' = Pop
    /\ last' = Outcome("buy", Top.caller, Top.args, "ok", <<Top.l.tokens_to_buy>>,
                       Depth - 1)
    /\ UNCHANGED <<contract, router, now, pair, bal, deposits, refunded>>

\* sell() up to runtime::call_contract(token, "burn")
Sell(caller, amount) ==
    /\ OnCurve
    /\ Depth < MaxDepth
    /\ LET r == sell(bc, caller, amount)
       IN  IF r.err # "ok" THEN Revert("sell", caller, <<amount>>, r.err)
           ELSE /\ bc' = r.st
                /\ tx' = Push([pc |-> "sell_burn", op |-> "sell", caller |-> caller,
                               args |-> <<amount>>, l |-> r.ret])
                /\ last' = NoCall
                /\ UNCHANGED <<contract, router, now, pair, bal, deposits, refunded>>

\* burn has returned: the writes, the two transfers, unlock() and runtime::ret
SellReturn ==
    /\ OnCurve
    /\ Depth > 0
    /\ Top.pc = "sell_burn"
    /\ LET r == sell_update(bc, Top.l)
       IN  IF r.err # "ok" THEN RevertTop(r.err)
           ELSE \E transfer_ok \in BOOLEAN :
                   IF ~transfer_ok THEN RevertTop("TransferFailed")
                   ELSE /\ bc' = unlock(r.st)
                        /\ tx' = Pop
                        /\ last' = Outcome("sell", Top.caller, Top.args, "ok",
                                           <<r.ret[1]>>, Depth - 1)
                        /\ UNCHANGED <<contract, router, now, pair, bal, deposits, refunded>>

ClaimRefund(caller) ==
    /\ OnCurve
    /\ CurveCall("claim_refund", caller, <<>>,
                 claim_refund(bc, caller, get_current_time), TRUE)

Graduate(caller) ==
    /\ OnCurve
    /\ CurveCall("graduate", caller, <<>>, graduate(bc), FALSE)

WithdrawFees(caller) ==
    /\ OnCurve
    /\ Depth = 0
    /\ CurveCall("withdraw_fees", caller, <<>>, withdraw_fees(bc, caller), TRUE)

ClaimPromoMilestone(caller) ==
    /\ OnCurve
    /\ Depth = 0
    /\ CurveCall("claim_promo_milestone", caller, <<>>,
                 claim_promo_milestone(bc, caller), TRUE)

\* the contract an entry point called (the token's mint, burn, transfer or
\* balance_of) reverts, which ends the deploy
CalleeReverts ==
    /\ Depth > 0
    /\ RevertTop("CalleeReverted")

\* block time advances between deploys
Tick ==
    /\ OnCurve
    /\ Depth = 0
    /\ now < MaxTime
    /\ now' = now + 1
    /\ last' = NoCall
    /\ UNCHANGED <<contract, router, bc, pair, bal, deposits, tx, refunded>>

NextCurve ==
    \/ \E a \in Accounts, x \in BuyAmounts : Buy(a, x)
    \/ BuyReturn
    \/ \E a \in Accounts, x \in SellAmounts : Sell(a, x)
    \/ SellReturn
    \/ \E a \in Accounts : ClaimRefund(a)
    \/ \E a \in Accounts : Graduate(a)
    \/ \E a \in Accounts : WithdrawFees(a)
    \/ \E a \in Accounts : ClaimPromoMilestone(a)
    \/ Tick

----------------------------------------------------------------------------
(* Entry points of the pair contract as steps of a deploy *)

OnPair == contract = "pair"

pair_unlock_skipped(p) == p

pair_unlock(p) == [p EXCEPT !.locked = FALSE]

transfer(p, sender, recipient, amount) ==
    transfer_lp_internal(p, sender, recipient, amount)

transfer_from(p, spender, owner, recipient, amount) ==
    LET current_allowance == read_lp_allowance(p, owner, spender)
    IN  IF current_allowance < amount THEN Res("InsufficientAllowance", p, <<>>)
        ELSE transfer_lp_internal(
                 write_lp_allowance(p, owner, spender, current_allowance - amount),
                 owner, recipient, amount)

approve(p, owner, spender, amount) ==
    Res("ok", write_lp_allowance(p, owner, spender, amount), <<>>)

\* the token contract moves `amount` of the pair's balance to `recipient`
\* (transfer_token); a transfer to the pair itself leaves its balance as it was
Sent(balance, recipient, amount) ==
    IF recipient = SELF_KEY THEN balance ELSE balance - amount

\* an entry point that holds no lock and runs to its end in one step
PairCall(op, caller, args, r, newbal) ==
    IF r.err # "ok" THEN Revert(op, caller, args, r.err)
    ELSE /\ pair' = r.st
         /\ bal' = newbal
         /\ last' = Outcome(op, caller, args, "ok", r.ret, Depth)
         /\ UNCHANGED <<contract, router, now, bc, deposits, tx, refunded>>

Transfer(caller, recipient, amount) ==
    /\ OnPair
    /\ Depth = 0
    /\ PairCall("transfer", caller, <<recipient, amount>>,
                transfer(pair, caller, recipient, amount), bal)

TransferFrom(caller, owner, recipient, amount) ==
    /\ OnPair
    /\ Depth = 0
    /\ PairCall("transfer_from", caller, <<owner, recipient, amount>>,
                transfer_from(pair, caller, owner, recipient, amount), bal)

Approve(caller, spender, amount) ==
    /\ OnPair
    /\ Depth = 0
    /\ PairCall("approve", caller, <<spender, amount>>,
                approve(pair, caller, spender, amount), bal)

\* mint() up to the balance_of calls
Mint(to) ==
    /\ OnPair
    /\ Depth < MaxDepth
    /\ IF ~pair_lock(pair) THEN Revert("mint", "any", <<to>>, "Locked")
       ELSE /\ pair' = [pair EXCEPT !.locked = TRUE]
            /\ tx' = Push([pc |-> "mint_balance", op |-> "mint", caller |-> "any",
                           args |-> <<to>>,
                           l |-> [reserve0 |-> pair.reserve0,
                                  reserve1 |-> pair.reserve1]])
            /\ last' = NoCall
            /\ UNCHANGED <<contract, router, now, bc, bal, deposits, refunded>>

\* balance_of has returned: the rest of mint()
MintReturn ==
    /\ OnPair
    /\ Depth > 0
    /\ Top.pc = "mint_balance"
    /\ LET r == mint(pair, Top.args[1], Top.l, bal.t0, bal.t1)
       IN  IF r.err # "ok" THEN RevertTop(r.err)
           ELSE /\ pair' = pair_unlock(r.st)
                /\ tx' = Pop
                /\ last' = Outcome("mint", "any", Top.args, "ok", r.ret, Depth - 1)
                /\ UNCHANGED <<contract, router, now, bc, bal, deposits, refunded>>

\* burn() up to the two transfer_token calls
Burn(to) ==
    /\ OnPair
    /\ Depth < MaxDepth
    /\ IF ~pair_lock(pair) THEN Revert("burn", "any", <<to>>, "Locked")
       ELSE LET r == burn(pair, bal.t0, bal.t1)
            IN  IF r.err # "ok" THEN Revert("burn", "any", <<to>>, r.err)
                ELSE /\ pair' = [r.st EXCEPT !.locked = TRUE]
                     /\ bal' = [t0 |-> Sent(bal.t0, to, r.ret[1]),
                                t1 |-> Sent(bal.t1, to, r.ret[2])]
                     /\ tx' = Push([pc |-> "burn_transfer", op |-> "burn",
                                    caller |-> "any", args |-> <<to>>,
                                    l |-> [amount0 |-> r.ret[1],
                                           amount1 |-> r.ret[2]]])
                     /\ last' = NoCall
                     /\ UNCHANGED <<contract, router, now, bc, deposits, refunded>>

\* the transfers have returned: balances read back, reserves updated, unlock()
BurnReturn ==
    /\ OnPair
    /\ Depth > 0
    /\ Top.pc = "burn_transfer"
    /\ pair' = pair_unlock(update_reserves(pair, bal.t0, bal.t1))
    /\ tx' = Pop
    /\ last' = Outcome("burn", "any", Top.args, "ok",
                       <<Top.l.amount0, Top.l.amount1>>, Depth - 1)
    /\ UNCHANGED <<contract, router, now, bc, bal, deposits, refunded>>

\* swap() up to the optimistic transfer_token calls
Swap(amount0_out, amount1_out, to) ==
    /\ OnPair
    /\ Depth < MaxDepth
    /\ LET args == <<amount0_out, amount1_out, to>>
           err == swap(pair, amount0_out, amount1_out)
       IN  IF ~pair_lock(pair) THEN Revert("swap", "any", args, "Locked")
           ELSE IF err # "ok" THEN Revert("swap", "any", args, err)
           ELSE IF bal.t0 < amount0_out \/ bal.t1 < amount1_out
                THEN Revert("swap", "any", args, "CalleeReverted")
           ELSE /\ pair' = [pair EXCEPT !.locked = TRUE]
                /\ bal' = [t0 |-> Sent(bal.t0, to, amount0_out),
                           t1 |-> Sent(bal.t1, to, amount1_out)]
                /\ tx' = Push([pc |-> "swap_transfer", op |-> "swap",
                               caller |-> "any", args |-> args,
                               l |-> [reserve0 |-> pair.reserve0,
                                      reserve1 |-> pair.reserve1,
                                      amount0_out |-> amount0_out,
                                      amount1_out |-> amount1_out]])
                /\ last' = NoCall
                /\ UNCHANGED <<contract, router, now, bc, deposits, refunded>>

\* the transfers have returned: the rest of swap()
SwapReturn ==
    /\ OnPair
    /\ Depth > 0
    /\ Top.pc = "swap_transfer"
    /\ LET r == swap_settle(pair, Top.l, bal.t0, bal.t1)
       IN  IF r.err # "ok" THEN RevertTop(r.err)
           ELSE /\ pair' = pair_unlock(r.st)
                /\ tx' = Pop
                /\ last' = Outcome("swap", "any", Top.args, "ok", r.ret, Depth - 1)
                /\ UNCHANGED <<contract, router, now, bc, bal, deposits, refunded>>

Sync ==
    /\ OnPair
    /\ PairCall("sync", "any", <<>>,
                Res("ok", update_reserves(pair, bal.t0, bal.t1), <<>>), bal)

Skim(to) ==
    /\ OnPair
    /\ Depth = 0
    /\ PairCall("skim", "any", <<to>>, Res("ok", pair, <<>>),
                [t0 |-> IF bal.t0 > pair.reserve0
                        THEN Sent(bal.t0, to, bal.t0 - pair.reserve0) ELSE bal.t0,
                 t1 |-> IF bal.t1 > pair.reserve1
                        THEN Sent(bal.t1, to, bal.t1 - pair.reserve1) ELSE bal.t1])

\* somebody transfers `amount` of token0 (i = 0) or token1 (i = 1) to the pair
Deposit(i, amount) ==
    /\ OnPair
    /\ Depth = 0
    /\ deposits < MaxDeposits
    /\ deposits' = deposits + 1
    /\ bal' = IF i = 0 THEN [bal EXCEPT !.t0 = @ + amount]
                        ELSE [bal EXCEPT !.t1 = @ + amount]
    /\ last' = NoCall
    /\ UNCHANGED <<contract, router, now, bc, pair, tx, refunded>>

\* sqrt() on its own, for the arguments a first deposit into the new pair can
\* hand it
Sqrt(y) ==
    /\ OnPair
    /\ Depth = 0
    /\ deposits = 0
    /\ pair.lp_total_supply = 0
    /\ last' = Outcome("sqrt", "any", <<y>>, "ok", <<sqrt(y)>>, 0)
    /\ UNCHANGED <<contract, router, now, bc, pair, bal, deposits, tx, refunded>>

DepositAmounts == {1050}
SwapOuts == {0, 525}
\* LP amounts offered by an owner: all it holds, and one unit more than it holds
LpAmounts(owner) == {pair.lp_balances[owner], pair.lp_balances[owner] + 1}
Recipients == {"a1", SELF_KEY}

NextPair ==
    \/ \E a \in Accounts, k \in Recipients : \E x \in LpAmounts(a) : Transfer(a, k, x)
    \/ \E k \in Recipients : \E x \in LpAmounts("a1") : TransferFrom("a2", "a1", k, x)
    \/ Approve("a1", "a2", pair.lp_balances["a1"])
    \/ \E k \in Recipients : Mint(k)
    \/ MintReturn
    \/ \E k \in Recipients : Burn(k)
    \/ BurnReturn
    \/ \E x \in SwapOuts, y \in SwapOuts, k \in Recipients : Swap(x, y, k)
    \/ SwapReturn
    \/ Sync
    \/ \E k \in Recipients : Skim(k)
    \/ \E i \in {0, 1}, x \in DepositAmounts : Deposit(i, x)
    \/ \E y \in 0 .. MaxRootArg : Sqrt(y)

----------------------------------------------------------------------------

\* <<curve_type, platform_fee_bps, creator_fee_bps>> given to call()
----------------------------------------------------------------------------
(* The router contract (contracts/router): quotes *)

\* get_amount_out_internal with the quotient rounded up instead of down
get_amount_out_internal_rounded_up(amount_in, reserve_in, reserve_out) ==
    IF amount_in = 0 \/ reserve_in = 0 \/ reserve_out = 0 THEN 0
    ELSE LET amount_in_with_fee == amount_in * 997
             numerator == amount_in_with_fee * reserve_out
             denominator == reserve_in * 1000 + amount_in_with_fee
         IN  (numerator + denominator - 1) \div denominator

\* get_amount_out_internal that takes no fee from the input
get_amount_out_internal_no_fee(amount_in, reserve_in, reserve_out) ==
    IF amount_in = 0 \/ reserve_in = 0 \/ reserve_out = 0 THEN 0
    ELSE LET numerator == amount_in * reserve_out
             denominator == reserve_in + amount_in
         IN  numerator \div denominator

\* the output amount for an input amount, 0.3% fee taken from the input
get_amount_out_internal(amount_in, reserve_in, reserve_out) ==
    IF amount_in = 0 \/ reserve_in = 0 \/ reserve_out = 0 THEN 0
    ELSE LET amount_in_with_fee == amount_in * 997
             numerator == amount_in_with_fee * reserve_out
             denominator == reserve_in * 1000 + amount_in_with_fee
         IN  numerator \div denominator

\* get_amount_in_internal panics: reserve_out - amount_out underflows, or the
\* denominator is zero
get_amount_in_panics(amount_out, reserve_in, reserve_out) ==
    /\ amount_out # 0 /\ reserve_in # 0 /\ reserve_out # 0
    /\ amount_out >= reserve_out

\* get_amount_in_internal without the final + 1
get_amount_in_internal_truncated(amount_out, reserve_in, reserve_out) ==
    IF amount_out = 0 \/ reserve_in = 0 \/ reserve_out = 0 THEN 0
    ELSE LET numerator == reserve_in * amount_out * 1000
             denominator == (reserve_out - amount_out) * 997
         IN  numerator \div denominator

\* the input amount required for an output amount; defined where
\* get_amount_in_panics is false
get_amount_in_internal(amount_out, reserve_in, reserve_out) ==
    IF amount_out = 0 \/ reserve_in = 0 \/ reserve_out = 0 THEN 0
    ELSE LET numerator == reserve_in * amount_out * 1000
             denominator == (reserve_out - amount_out) * 997
         IN  (numerator \div denominator) + 1

----------------------------------------------------------------------------
(* The router contract: the factory, pairs and tokens it calls *)

Tokens == {"A", "B", "C"}

PairKeys == {"AB", "BC"}

NoPair == "none"        \* Option::None from the factory

RouterTrader == "a1"    \* the account that calls the router

RouterRecipient == "a2" \* the `to` of its swaps

Holders == {RouterTrader, RouterRecipient} \cup PairKeys

\* the factory with two pairs created, the two pairs with their reserves
\* (the pair of B and C records C as its token0), the token balances that
\* back the reserves, and a trader who holds A and C and has approved the
\* router for them.  issued is a history of the calls that change storage
\* which the entry point ending in the last step had issued; swaps counts
\* the router's swaps.
InitRouter ==
    [ factory |-> [AB |-> {"A", "B"}, BC |-> {"B", "C"}],
      pools |-> [AB |-> [token0 |-> "A", token1 |-> "B",
                         reserve0 |-> 1000, reserve1 |-> 2000],
                 BC |-> [token0 |-> "C", token1 |-> "B",
                         reserve0 |-> 500, reserve1 |-> 2000]],
      balances |-> [A |-> [a1 |-> 300, a2 |-> 0, AB |-> 1000, BC |-> 0],
                    B |-> [a1 |-> 0, a2 |-> 0, AB |-> 2000, BC |-> 2000],
                    C |-> [a1 |-> 300, a2 |-> 0, AB |-> 0, BC |-> 500]],
      allowances |-> [A |-> 250, B |-> 0, C |-> 250],
      issued |-> <<>>,
      swaps |-> 0 ]

\* the factory's get_pair: the pair stored for the two tokens, in either order
call_factory_get_pair(w, token_a, token_b) ==
    IF \E k \in PairKeys : w.factory[k] = {token_a, token_b}
    THEN CHOOSE k \in PairKeys : w.factory[k] = {token_a, token_b}
    ELSE NoPair

call_pair_get_reserves(w, pair_key) ==
    <<w.pools[pair_key].reserve0, w.pools[pair_key].reserve1>>

call_pair_token0(w, pair_key) == w.pools[pair_key].token0

\* the token's transfer_internal
transfer_internal(w, token, sender, recipient, amount) ==
    IF w.balances[token][sender] < amount
    THEN Res("Token.InsufficientBalance", w, <<>>)
    ELSE LET debited == [w.balances[token] EXCEPT ![sender] = @ - amount]
         IN  Res("ok",
                 [w EXCEPT !.balances[token] =
                     [debited EXCEPT ![recipient] = @ + amount]],
                 <<>>)

\* the token's transfer_from, called by the router for the trader
call_token_transfer_from(w, token, owner, recipient, amount) ==
    IF w.allowances[token] < amount
    THEN Res("Token.InsufficientAllowance", w, <<>>)
    ELSE transfer_internal([w EXCEPT !.allowances[token] = @ - amount],
                           token, owner, recipient, amount)

\* an error of the pair as the router's caller sees it
PairError(err) ==
    CASE err = "InsufficientOutputAmount" -> "Pair.InsufficientOutputAmount"
      [] err = "InsufficientLiquidity" -> "Pair.InsufficientLiquidity"
      [] err = "InsufficientInputAmount" -> "Pair.InsufficientInputAmount"
      [] err = "K" -> "Pair.K"
      [] OTHER -> err

\* transfer_token of the pair: the token moves the pair's balance
transfer_token(w, pair_key, token, recipient, amount) ==
    IF amount > 0 THEN transfer_internal(w, token, pair_key, recipient, amount)
    ELSE Res("ok", w, <<>>)

\* the pair's swap(), from entry to return, on the pool pair_key
call_pair_swap(w, pair_key, amount0_out, amount1_out, to) ==
    LET p == w.pools[pair_key]
        err == swap(p, amount0_out, amount1_out)
    IN  IF err # "ok" THEN Res(PairError(err), w, <<>>)
        ELSE
        LET t0 == transfer_token(w, pair_key, p.token0, to, amount0_out)
        IN  IF t0.err # "ok" THEN t0
            ELSE
        LET t1 == transfer_token(t0.st, pair_key, p.token1, to, amount1_out)
        IN  IF t1.err # "ok" THEN t1
            ELSE
        LET r == swap_settle(p, [reserve0 |-> p.reserve0, reserve1 |-> p.reserve1,
                                 amount0_out |-> amount0_out,
                                 amount1_out |-> amount1_out],
                             t1.st.balances[p.token0][pair_key],
                             t1.st.balances[p.token1][pair_key])
        IN  IF r.err # "ok" THEN Res(PairError(r.err), w, <<>>)
            ELSE Res("ok", [t1.st EXCEPT !.pools[pair_key] = r.st], <<>>)

\* get_reserves_sorted that returns the reserves in the pair's own order
get_reserves_unsorted(w, token_a, token_b) ==
    LET pair_key == call_factory_get_pair(w, token_a, token_b)
    IN  IF pair_key = NoPair THEN Res("PairNotFound", w, <<>>)
        ELSE Res("ok", w, call_pair_get_reserves(w, pair_key))

\* the reserves of the pair of token_a and token_b, token_a's first
get_reserves_sorted(w, token_a, token_b) ==
    LET pair_key == call_factory_get_pair(w, token_a, token_b)
    IN  IF pair_key = NoPair THEN Res("PairNotFound", w, <<>>)
        ELSE LET reserves == call_pair_get_reserves(w, pair_key)
                 token0 == call_pair_token0(w, pair_key)
             IN  IF token_a = token0 THEN Res("ok", w, reserves)
                 ELSE Res("ok", w, <<reserves[2], reserves[1]>>)

\* the loop of get_amounts_out, about to run hop i with the amounts so far
RECURSIVE amounts_out_loop(_, _, _, _)
amounts_out_loop(w, amounts, path, i) ==
    IF i > Len(path) - 1 THEN Res("ok", w, amounts)
    ELSE LET r == get_reserves_sorted(w, path[i], path[i + 1])
         IN  IF r.err # "ok" THEN r
             ELSE amounts_out_loop(w,
                      Append(amounts,
                             get_amount_out_internal(amounts[i], r.ret[1], r.ret[2])),
                      path, i + 1)

get_amounts_out(w, amount_in, path) ==
    IF Len(path) < 2 THEN Res("InvalidPath", w, <<>>)
    ELSE amounts_out_loop(w, <<amount_in>>, path, 1)

\* the loop of get_amounts_in, about to fill amounts[i - 1]; amounts holds
\* amounts[i] and those after it
RECURSIVE amounts_in_loop(_, _, _, _)
amounts_in_loop(w, amounts, path, i) ==
    IF i < 2 THEN Res("ok", w, amounts)
    ELSE LET r == get_reserves_sorted(w, path[i - 1], path[i])
         IN  IF r.err # "ok" THEN r
             ELSE IF get_amount_in_panics(amounts[1], r.ret[1], r.ret[2])
             THEN Res("Panic", w, <<>>)
             ELSE amounts_in_loop(w,
                      <<get_amount_in_internal(amounts[1], r.ret[1], r.ret[2])>>
                          \o amounts,
                      path, i - 1)

get_amounts_in(w, amount_out, path) ==
    IF Len(path) < 2 THEN Res("InvalidPath", w, <<>>)
    ELSE amounts_in_loop(w, <<amount_out>>, path, Len(path))

\* a result of a router entry point: Res and the calls it had issued
Issuing(r, issued) ==
    [err |-> r.err, st |-> r.st, ret |-> r.ret, issued |-> issued]

\* a loop that sends the output of every hop to the final recipient
RECURSIVE execute_swaps_all_to_recipient(_, _, _, _, _, _)
execute_swaps_all_to_recipient(w, amounts, path, to, i, issued) ==
    IF i > Len(path) - 1 THEN Issuing(Res("ok", w, amounts), issued)
    ELSE
    LET input == path[i]
        output == path[i + 1]
        pair_key == call_factory_get_pair(w, input, output)
        token0 == call_pair_token0(w, pair_key)
        amount_out == amounts[i + 1]
        amount0_out == IF input = token0 THEN 0 ELSE amount_out
        amount1_out == IF input = token0 THEN amount_out ELSE 0
        r == call_pair_swap(w, pair_key, amount0_out, amount1_out, to)
        called == Append(issued, <<"swap", pair_key, amount0_out, amount1_out, to>>)
    IN  IF r.err # "ok" THEN Issuing(r, called)
        ELSE execute_swaps_all_to_recipient(r.st, amounts, path, to, i + 1, called)

\* the loop that executes the swaps, about to run hop i
RECURSIVE execute_swaps(_, _, _, _, _, _)
execute_swaps(w, amounts, path, to, i, issued) ==
    IF i > Len(path) - 1 THEN Issuing(Res("ok", w, amounts), issued)
    ELSE
    LET input == path[i]
        output == path[i + 1]
        pair_key == call_factory_get_pair(w, input, output)
        token0 == call_pair_token0(w, pair_key)
        amount_out == amounts[i + 1]
        amount0_out == IF input = token0 THEN 0 ELSE amount_out
        amount1_out == IF input = token0 THEN amount_out ELSE 0
        recipient == IF i < Len(path) - 1
                     THEN call_factory_get_pair(w, output, path[i + 2])
                     ELSE to
        r == call_pair_swap(w, pair_key, amount0_out, amount1_out, recipient)
        called == Append(issued, <<"swap", pair_key, amount0_out, amount1_out,
                                   recipient>>)
    IN  IF r.err # "ok" THEN Issuing(r, called)
        ELSE execute_swaps(r.st, amounts, path, to, i + 1, called)

\* the part the two swap entry points share: the input goes to the first
\* pair, then the swaps run
transfer_and_swap(w, caller, amounts, path, to) ==
    LET first_pair == call_factory_get_pair(w, path[1], path[2])
        r == call_token_transfer_from(w, path[1], caller, first_pair, amounts[1])
        called == <<<<"transfer_from", path[1], caller, first_pair, amounts[1]>>>>
    IN  IF r.err # "ok" THEN Issuing(r, called)
        ELSE execute_swaps(r.st, amounts, path, to, 1, called)

\* a swap_exact_tokens_for_tokens that looks at amount_out_min after the swaps
swap_exact_tokens_for_tokens_checked_late(w, caller, amount_in, amount_out_min, path, to) ==
    LET a == get_amounts_out(w, amount_in, path)
    IN  IF a.err # "ok" THEN Issuing(a, <<>>)
        ELSE LET r == transfer_and_swap(w, caller, a.ret, path, to)
             IN  IF r.err # "ok" THEN r
                 ELSE IF a.ret[Len(a.ret)] < amount_out_min
                 THEN Issuing(Res("InsufficientOutputAmount", w, <<>>), r.issued)
                 ELSE r

swap_exact_tokens_for_tokens(w, caller, amount_in, amount_out_min, path, to) ==
    LET a == get_amounts_out(w, amount_in, path)
    IN  IF a.err # "ok" THEN Issuing(a, <<>>)
        ELSE IF a.ret[Len(a.ret)] < amount_out_min
        THEN Issuing(Res("InsufficientOutputAmount", w, <<>>), <<>>)
        ELSE transfer_and_swap(w, caller, a.ret, path, to)

swap_tokens_for_exact_tokens(w, caller, amount_out, amount_in_max, path, to) ==
    LET a == get_amounts_in(w, amount_out, path)
    IN  IF a.err # "ok" THEN Issuing(a, <<>>)
        ELSE IF a.ret[1] > amount_in_max
        THEN Issuing(Res("ExcessiveInputAmount", w, <<>>), <<>>)
        ELSE transfer_and_swap(w, caller, a.ret, path, to)


Launches == {<<Linear, 1000, 500>>, <<Sigmoid, 0, 0>>, <<Steep, 1000, 0>>}

Init ==
    /\ \/ /\ contract = "bonding_curve"
          /\ \E c \in Launches : bc = InitBc(c[1], c[2], c[3])
       \/ /\ contract = "pair"
          /\ bc = InitBc(Linear, 0, 0)
    /\ now = 0
    /\ pair = InitPair
    /\ bal = [t0 |-> 0, t1 |-> 0]
    /\ deposits = 0
    /\ tx = NoTx
    /\ last = NoCall
    /\ refunded = {}
    /\ router = InitRouter

Next == NextCurve \/ NextPair \/ CalleeReverts

Spec == Init /\ [][Next]_vars

----------------------------------------------------------------------------
(* Entry points of the router contract *)

OnRouter == contract = "router"

\* amounts and reserves the quote entry points are called with
QuoteAmounts == (0 .. MaxQuote) \cup {1000}

QuoteReserves == (0 .. MaxQuote) \cup {997}

\* an entry point of the router that only computes: it ends with err and
\* returns r, and issues no call that changes storage
RouterView(op, args, err, r) ==
    /\ OnRouter
    /\ last' = Outcome(op, RouterTrader, args, err, IF err = "ok" THEN r ELSE <<>>, 0)
    /\ router' = [router EXCEPT !.issued = <<>>]
    /\ UNCHANGED <<contract, bc, now, pair, bal, deposits, tx, refunded>>

GetAmountOut(amount_in, reserve_in, reserve_out) ==
    RouterView("get_amount_out", <<amount_in, reserve_in, reserve_out>>, "ok",
               <<get_amount_out_internal(amount_in, reserve_in, reserve_out)>>)

GetAmountIn(amount_out, reserve_in, reserve_out) ==
    RouterView("get_amount_in", <<amount_out, reserve_in, reserve_out>>,
               IF get_amount_in_panics(amount_out, reserve_in, reserve_out)
               THEN "Panic" ELSE "ok",
               <<get_amount_in_internal(amount_out, reserve_in, reserve_out)>>)

GetAmountsOut(amount_in, path) ==
    LET r == get_amounts_out(router, amount_in, path)
    IN  RouterView("get_amounts_out", <<amount_in, path>>, r.err, r.ret)

GetAmountsIn(amount_out, path) ==
    LET r == get_amounts_in(router, amount_out, path)
    IN  RouterView("get_amounts_in", <<amount_out, path>>, r.err, r.ret)

\* an entry point of the router that trades, from entry to return: r is its
\* result.  A revert anywhere in it discards every write of the deploy.
RouterCall(op, caller, args, r) ==
    /\ OnRouter
    /\ router.swaps < MaxSwaps
    /\ router' = IF r.err # "ok" THEN [router EXCEPT !.issued = r.issued]
                 ELSE [r.st EXCEPT !.issued = r.issued, !.swaps = @ + 1]
    /\ last' = Outcome(op, caller, args, r.err,
                       IF r.err = "ok" THEN r.ret ELSE <<>>, 0)
    /\ UNCHANGED <<contract, bc, now, pair, bal, deposits, tx, refunded>>

SwapExactTokensForTokens(caller, amount_in, amount_out_min, path, to) ==
    RouterCall("swap_exact_tokens_for_tokens", caller,
               <<amount_in, amount_out_min, path, to>>,
               swap_exact_tokens_for_tokens(router, caller, amount_in,
                                            amount_out_min, path, to))

SwapTokensForExactTokens(caller, amount_out, amount_in_max, path, to) ==
    RouterCall("swap_tokens_for_exact_tokens", caller,
               <<amount_out, amount_in_max, path, to>>,
               swap_tokens_for_exact_tokens(router, caller, amount_out,
                                            amount_in_max, path, to))

\* the paths, amounts and bounds the router is called with
Paths == {<<"A", "B", "C">>, <<"C", "B", "A">>, <<"A", "B">>, <<"A">>, <<"A", "C">>}

SwapAmountsIn == {100}

AmountOutMins == {0, 42}

SwapAmountsOut == {41}

AmountInMaxes == {99, 300}

RouterInit ==
    /\ contract = "router"
    /\ bc = InitBc(Linear, 0, 0)
    /\ now = 0
    /\ pair = InitPair
    /\ bal = [t0 |-> 0, t1 |-> 0]
    /\ deposits = 0
    /\ tx = NoTx
    /\ last = NoCall
    /\ refunded = {}
    /\ router = InitRouter

QuoteNext ==
    \/ \E x \in QuoteAmounts, rIn \in QuoteReserves, rOut \in QuoteReserves :
           GetAmountOut(x, rIn, rOut)
    \/ \E y \in QuoteAmounts, rIn \in QuoteReserves, rOut \in QuoteReserves :
           GetAmountIn(y, rIn, rOut)

\* the quote entry points read no storage: they are explored on their own
QuoteSpec == RouterInit /\ [][QuoteNext]_vars

RouterNext ==
    \/ \E x \in SwapAmountsIn, path \in Paths : GetAmountsOut(x, path)
    \/ \E y \in SwapAmountsOut, path \in Paths : GetAmountsIn(y, path)
    \/ \E x \in SwapAmountsIn, m \in AmountOutMins, path \in Paths :
           SwapExactTokensForTokens(RouterTrader, x, m, path, RouterRecipient)
    \/ \E y \in SwapAmountsOut, m \in AmountInMaxes, path \in Paths :
           SwapTokensForExactTokens(RouterTrader, y, m, path, RouterRecipient)

RouterSpec == RouterInit /\ [][RouterNext]_vars

\* the quotes and the swaps of the router together; the quotes read no
\* storage and are explored before the first swap has gone through
QuotedSwapNext ==
    \/ (router.swaps = 0 /\ QuoteNext)
    \/ RouterNext

QuotedSwapSpec == RouterInit /\ [][QuotedSwapNext]_vars

----------------------------------------------------------------------------
(* The functions of curves.rs called on their own, and the first buy of a
   market launched with the prices of test_linear_curve *)

OnCurves == contract = "curves"

\* token amounts the curve functions are called with
CurveTokens == (0 .. MaxCurveSupply) \cup {21, 22, 105, 210, 211}

\* amounts sold, up to past the supply; the limit keeps progress * progress
\* below 2^31
CurveSolds(total_supply) == {t \in CurveTokens : t <= total_supply + MaxCurveSupply}

CurvePrices == (0 .. MaxCurvePrice) \cup {250}

CurveFunds == 0 .. MaxCurveFunds

CurveTypes == {Linear, Sigmoid, Steep}

CurveView(op, args, panics, r) ==
    /\ OnCurves
    /\ last' = Outcome(op, "any", args, IF panics THEN "Panic" ELSE "ok",
                       IF panics THEN <<>> ELSE <<r>>, 0)
    /\ UNCHANGED <<contract, router, bc, now, pair, bal, deposits, tx, refunded>>

\* a function of curves.rs is called once: it reads and writes no storage, so
\* a second call in the same behaviour would show nothing new
CurveIdle == OnCurves /\ last = NoCall

CalculatePrice ==
    /\ CurveIdle
    /\ \E c \in CurveTypes, supply \in CurveTokens, base \in CurvePrices, max \in CurvePrices :
          \E sold \in CurveSolds(supply) :
             CurveView("calculate_price", <<c, sold, supply, base, max>>,
                       calculate_price_panics(c, sold, supply, base, max),
                       calculate_price(c, sold, supply, base, max))

CalculateTokensForCspr ==
    /\ CurveIdle
    /\ \E c \in CurveTypes, supply \in CurveTokens, base \in CurvePrices, max \in CurvePrices :
          \E sold \in CurveSolds(supply), x \in CurveFunds :
             CurveView("calculate_tokens_for_cspr", <<c, x, sold, supply, base, max>>,
                       calculate_tokens_for_cspr_panics(c, x, sold, supply, base, max),
                       calculate_tokens_for_cspr(c, x, sold, supply, base, max))

CalculateCsprForTokens ==
    /\ CurveIdle
    /\ \E c \in CurveTypes, supply \in CurveTokens, base \in CurvePrices, max \in CurvePrices :
          \E sold \in CurveSolds(supply), x \in CurveTokens :
             CurveView("calculate_cspr_for_tokens", <<c, x, sold, supply, base, max>>,
                       calculate_cspr_for_tokens_panics(c, x, sold, supply, base, max),
                       calculate_cspr_for_tokens(c, x, sold, supply, base, max))

CalculateCurveIntegral ==
    /\ CurveIdle
    /\ \E c \in CurveTypes, supply \in CurveTokens, base \in CurvePrices, max \in CurvePrices :
          \E from \in CurveSolds(supply), to \in CurveSolds(supply) :
             CurveView("calculate_curve_integral", <<c, from, to, supply, base, max>>,
                       calculate_curve_integral_panics(c, from, to, supply, base, max),
                       calculate_curve_integral(c, from, to, supply, base, max))

\* 1_000_000 tokens of 10 units each, priced from 1 to 10, platform fee 100 bps
ScenarioMarket ==
    [InitBc(Linear, 100, 0) EXCEPT !.total_supply = 10000000, !.base_price = 1,
                                   !.max_price = 10, !.graduation_threshold = 10000,
                                   !.promo_budget = 0]

ScenarioFunds == {0, 5000}

\* a buy from a market that has sold nothing yet
FreshBuy(caller, amount) ==
    /\ bc.cspr_raised = 0
    /\ BuyEnters(caller, amount)

CurveInit ==
    /\ contract \in {"curves", "bonding_curve"}
    /\ bc = ScenarioMarket
    /\ now = 0
    /\ pair = InitPair
    /\ bal = [t0 |-> 0, t1 |-> 0]
    /\ deposits = 0
    /\ tx = NoTx
    /\ last = NoCall
    /\ refunded = {}
    /\ router = InitRouter

CurveNext ==
    \/ CalculatePrice
    \/ CalculateTokensForCspr
    \/ CalculateCsprForTokens
    \/ CalculateCurveIntegral
    \/ \E a \in Accounts, x \in ScenarioFunds : FreshBuy(a, x)
    \/ BuyReturn
    \/ CalleeReverts

CurveSpec == CurveInit /\ [][CurveNext]_vars

----------------------------------------------------------------------------
(* A buy and the sale of what it bought, on a market of 100 token units *)

RoundTripLaunches == {<<Linear, 0, 0>>, <<Sigmoid, 0, 0>>, <<Steep, 1000, 500>>}

RoundTripFunds == {10, 20}

\* sell() up to the burn, called by the buyer of the buy that has just
\* returned, for exactly the tokens that buy minted; the frame keeps what the
\* buyer paid
SellBack(caller) ==
    /\ OnCurve
    /\ Depth = 0
    /\ last.op = "buy"
    /\ last.err = "ok"
    /\ last.caller = caller
    /\ LET amount == last.ret[1]
           r == sell(bc, caller, amount)
       IN  IF r.err # "ok" THEN Revert("sell", caller, <<amount>>, r.err)
           ELSE /\ bc' = r.st
                /\ tx' = Push([pc |-> "sell_burn", op |-> "sell", caller |-> caller,
                               args |-> <<amount>>, l |-> r.ret,
                               paid |-> last.args[1]])
                /\ last' = NoCall
                /\ UNCHANGED <<contract, router, now, pair, bal, deposits, refunded>>

RoundTripInit ==
    /\ contract = "bonding_curve"
    /\ \E c \in RoundTripLaunches :
          bc = [InitBc(c[1], c[2], c[3]) EXCEPT !.total_supply = 100]
    /\ now = 0
    /\ pair = InitPair
    /\ bal = [t0 |-> 0, t1 |-> 0]
    /\ deposits = 0
    /\ tx = NoTx
    /\ last = NoCall
    /\ refunded = {}
    /\ router = InitRouter

RoundTripNext ==
    \/ \E a \in Accounts, x \in RoundTripFunds : Buy(a, x)
    \/ BuyReturn
    \/ \E a \in Accounts : SellBack(a)
    \/ SellReturn
    \/ CalleeReverts

RoundTripSpec == RoundTripInit /\ [][RoundTripNext]_vars

----------------------------------------------------------------------------
(* Quotes of the market and the trades they are quotes of *)

GetQuoteBuy(caller, cspr_amount) ==
    /\ OnCurve
    /\ Depth = 0
    /\ CurveCall("get_quote_buy", caller, <<cspr_amount>>,
                 get_quote_buy(bc, cspr_amount), FALSE)

GetQuoteSell(caller, token_amount) ==
    /\ OnCurve
    /\ Depth = 0
    /\ CurveCall("get_quote_sell", caller, <<token_amount>>,
                 get_quote_sell(bc, token_amount), FALSE)

QuotedTradeInit ==
    /\ contract = "bonding_curve"
    /\ \E c \in Launches : bc = InitBc(c[1], c[2], c[3])
    /\ now = 0
    /\ pair = InitPair
    /\ bal = [t0 |-> 0, t1 |-> 0]
    /\ deposits = 0
    /\ tx = NoTx
    /\ last = NoCall
    /\ refunded = {}
    /\ router = InitRouter

QuotedTradeNext ==
    \/ \E a \in Accounts, x \in BuyAmounts : GetQuoteBuy(a, x)
    \/ \E a \in Accounts, x \in SellAmounts : GetQuoteSell(a, x)
    \/ \E a \in Accounts, x \in BuyAmounts : Buy(a, x)
    \/ BuyReturn
    \/ \E a \in Accounts, x \in SellAmounts : Sell(a, x)
    \/ SellReturn
    \/ CalleeReverts

QuotedTradeSpec == QuotedTradeInit /\ [][QuotedTradeNext]_vars

----------------------------------------------------------------------------
(* Deposits into a pair that has LP tokens *)

\* the pair after its first mint, to a1, of a deposit of 2100 and 1050:
\* sqrt(2100 * 1050) = 1484, of which 1000 are locked
AfterFirstMint ==
    [InitPair EXCEPT !.reserve0 = 2100, !.reserve1 = 1050,
                     !.lp_total_supply = 1484,
                     !.lp_balances = [@ EXCEPT ![ZERO_KEY] = MINIMUM_LIQUIDITY,
                                               !["a1"] = 484]]

LaterMintInit ==
    /\ contract = "pair"
    /\ bc = InitBc(Linear, 0, 0)
    /\ now = 0
    /\ pair = AfterFirstMint
    /\ bal = [t0 |-> 2100, t1 |-> 1050]
    /\ deposits = 0
    /\ tx = NoTx
    /\ last = NoCall
    /\ refunded = {}
    /\ router = InitRouter

LaterMintNext ==
    \/ \E i \in {0, 1}, x \in DepositAmounts : Deposit(i, x)
    \/ \E k \in Recipients : Mint(k)
    \/ MintReturn
    \/ CalleeReverts

LaterMintSpec == LaterMintInit /\ [][LaterMintNext]_vars

----------------------------------------------------------------------------
(* Properties *)

RECURSIVE SumOver(_, _)
SumOver(f, S) ==
    IF S = {} THEN 0
    ELSE LET x == CHOOSE y \in S : TRUE
         IN  f[x] + SumOver(f, S \ {x})

\* the input the pair infers for one token from its balance after the transfers
InferredIn(balance, reserve, out) ==
    IF balance > reserve - out THEN balance - (reserve - out) ELSE 0

\* (b0*1000 - 3*in0) * (b1*1000 - 3*in1) >= r0 * r1 * 1000^2
FeeAdjustedK(b0, b1, in0, in1, r0, r1) ==
    ProductGe(b0 * 1000 - 3 * in0, b1 * 1000 - 3 * in1, r0 * r1, 1000 * 1000)

\* this step is a swap that has made its transfers and runs to its end
SwapSettles ==
    /\ Depth > 0
    /\ Top.pc = "swap_transfer"
    /\ last' # last
    /\ last'.op = "swap"
    /\ last'.depth = Depth - 1
    /\ last'.err # "CalleeReverted"

\* C1: a swap that succeeds commits balances (b0, b1) whose fee-adjusted
\* product with the inferred inputs (in0, in1) is at least the product of the
\* reserves (r0, r1) the swap began with; a swap with some input whose
\* balances fail that is rejected with the K error and the reserves stay
\* (r0, r1).
C1_SwapKInvariant ==
    [][SwapSettles =>
        LET r0 == Top.l.reserve0
            r1 == Top.l.reserve1
            b0 == bal.t0
            b1 == bal.t1
            in0 == InferredIn(b0, r0, Top.args[1])
            in1 == InferredIn(b1, r1, Top.args[2])
        IN  IF in0 = 0 /\ in1 = 0 THEN last'.err = "InsufficientInputAmount"
            ELSE IF FeeAdjustedK(b0, b1, in0, in1, r0, r1)
                 THEN /\ last'.err = "ok"
                      /\ last'.ret = <<in0, in1>>
                      /\ pair'.reserve0 = b0
                      /\ pair'.reserve1 = b1
                 ELSE /\ last'.err = "K"
                      /\ pair'.reserve0 = r0
                      /\ pair'.reserve1 = r1
                      /\ bal' = tx.saved.bal
    ]_vars

\* a swap has succeeded with an input of token0 only, and its balances are
\* the new reserves
C1_Witness ==
    /\ Depth = 0
    /\ last.op = "swap"
    /\ last.err = "ok"
    /\ last.ret[1] > 0
    /\ last.ret[2] = 0
    /\ pair.reserve0 = bal.t0
    /\ pair.reserve1 = bal.t1

\* C2: in every reachable state of the pair lp_total_supply is the sum of
\* lp_balances over all keys, the minimum liquidity locked at the zero key
\* included.
C2_LpSupplyIsSumOfBalances ==
    pair.lp_total_supply = SumOver(pair.lp_balances, Keys)

\* an owner has transferred a positive amount of LP tokens to itself while
\* the minimum liquidity is locked
C2_Witness ==
    /\ last.op = "transfer"
    /\ last.err = "ok"
    /\ last.args[1] = last.caller
    /\ last.args[2] > 0
    /\ pair.lp_balances[ZERO_KEY] = MINIMUM_LIQUIDITY
    /\ pair.lp_total_supply > MINIMUM_LIQUIDITY

\* C3: status changes only from Active: to Graduated by a successful
\* graduate() with cspr_raised >= graduation_threshold, or to Refunding by a
\* successful claim_refund(); Graduated and Refunding are never left.
C3_StatusTransitions ==
    [][bc'.status # bc.status =>
        /\ bc.status = STATUS_ACTIVE
        /\ last'.err = "ok"
        /\ \/ /\ bc'.status = STATUS_GRADUATED
              /\ last'.op = "graduate"
              /\ bc.cspr_raised >= bc.graduation_threshold
           \/ /\ bc'.status = STATUS_REFUNDING
              /\ last'.op = "claim_refund"
    ]_vars

\* a graduated curve has turned a refund claim away and is still graduated
C3_Witness ==
    /\ bc.status = STATUS_GRADUATED
    /\ last.op = "claim_refund"
    /\ last.err = "RefundNotAvailable"

\* C4: in every reachable state 0 <= tokens_sold <= total_supply.
C4_TokensSoldWithinSupply ==
    /\ bc.tokens_sold >= 0
    /\ bc.tokens_sold <= bc.total_supply

\* a buy that was cut at the remaining supply has sold the last token
C4_Witness ==
    /\ last.op = "buy"
    /\ last.err = "ok"
    /\ last.ret[1] > 0
    /\ bc.tokens_sold = bc.total_supply

\* C5: in every reachable state cspr_raised (funds_raised) is the sum over
\* all buyers of purchases[buyer] (contributed).
C5_FundsRaisedIsSumOfContributions ==
    bc.cspr_raised = SumOver(bc.purchases, Accounts)

\* C6: the status goes from Active to Refunding only in a state where the
\* deadline has passed and cspr_raised is below the graduation threshold.
C6_RefundingOnlyBelowThreshold ==
    [][(bc.status = STATUS_ACTIVE /\ bc'.status = STATUS_REFUNDING) =>
        /\ now >= bc.deadline
        /\ bc.cspr_raised < bc.graduation_threshold
    ]_vars

\* C7: once the status is Refunding, a step leaves purchases[buyer] as it is
\* or sets it to zero, and only that buyer's successful claim_refund() sets
\* it to zero.
C7_ContributionsOnlyFall ==
    [][bc.status = STATUS_REFUNDING =>
        \A a \in Accounts :
            \/ bc'.purchases[a] = bc.purchases[a]
            \/ /\ bc'.purchases[a] = 0
               /\ last'.op = "claim_refund"
               /\ last'.caller = a
               /\ last'.err = "ok"
    ]_vars

\* a refunding curve that still holds a contribution has turned a buy away
C7_Witness ==
    /\ bc.status = STATUS_REFUNDING
    /\ last.op = "buy"
    /\ last.err = "CurveNotActive"
    /\ \E a \in Accounts : bc.purchases[a] > 0

\* this step is a claim_refund() called by account a
ClaimRefundBy(a) ==
    /\ last'.op = "claim_refund"
    /\ last'.caller = a
    /\ (last' # last \/ bc' # bc)

\* C8: a successful claim_refund() of an account with purchases C > 0 returns
\* exactly C and zeroes the record, and every later claim_refund() of an
\* account that was refunded fails with NoRefundAvailable and leaves the
\* storage of the curve as it was.
C8_RefundIdempotent ==
    [][\A a \in Accounts : ClaimRefundBy(a) =>
        /\ last'.err = "ok" =>
              /\ bc.purchases[a] > 0
              /\ last'.ret = <<bc.purchases[a]>>
              /\ bc'.purchases[a] = 0
              /\ a \in refunded'
        /\ a \in refunded =>
              /\ last'.err = "NoRefundAvailable"
              /\ bc' = bc
    ]_vars

\* an account that was refunded has claimed again and was turned away
C8_Witness ==
    /\ last.op = "claim_refund"
    /\ last.caller \in refunded
    /\ last.err = "NoRefundAvailable"
    /\ bc.purchases[last.caller] = 0

\* the entry points that take the lock
GuardedOps == {"buy", "sell", "claim_refund", "graduate", "mint", "burn", "swap"}

\* this step is a guarded entry point, called while another one is executing,
\* that runs to its end
NestedGuardedCall ==
    /\ Depth >= 1
    /\ last' # last
    /\ last'.op \in GuardedOps
    /\ last'.depth >= 1

\* C9: a guarded entry point called while another guarded entry point of the
\* contract is executing fails on the lock and nothing it or the deploy wrote
\* is kept; so at most one guarded entry point is ever executing.
C9_ReentrancyExcluded ==
    /\ [](Depth <= 1)
    /\ [][NestedGuardedCall =>
            /\ last'.err \in {"LockedReentrancy", "Locked"}
            /\ bc' = tx.saved.bc
            /\ pair' = tx.saved.pair
            /\ bal' = tx.saved.bal
            /\ Depth' = 0
       ]_vars

\* a claim_refund() called while buy() or sell() was executing has failed on
\* the lock
C9_Witness ==
    /\ last.op = "claim_refund"
    /\ last.depth = 1
    /\ last.err = "LockedReentrancy"
    /\ Depth = 0

\* C10: whenever no entry point is executing (every top-level call has
\* returned or reverted) neither contract's lock flag is set.
C10_LockReleased ==
    Depth = 0 => (~bc.locked /\ ~pair.locked)

\* a swap has failed the K check, and the pair is not locked
C10_Witness ==
    /\ Depth = 0
    /\ last.op = "swap"
    /\ last.depth = 0
    /\ last.err = "K"
    /\ ~pair.locked

\* the arguments of the get_amount_out call that just returned
QuotedOut == last.op = "get_amount_out" /\ last.err = "ok"

\* get_amount_in_internal of the amount a get_amount_out call returned, for
\* the same reserves
InOfOut == get_amount_in_internal(last.ret[1], last.args[2], last.args[3])

\* C11 as stated: for all positive x, rIn, rOut the round trip
\* amountIn(amountOut(x, rIn, rOut), rIn, rOut) is at least x.
C11_Original ==
    (QuotedOut /\ last.args[1] > 0 /\ last.args[2] > 0 /\ last.args[3] > 0)
        => InOfOut >= last.args[1]

\* C11, amended: for all positive x, rIn, rOut the round trip
\* amountIn(amountOut(x, rIn, rOut), rIn, rOut) is at most x + 1, and it is 0
\* exactly when amountOut truncates to 0; it can be smaller than x.
C11_RoundTripAtMostOneAbove ==
    (QuotedOut /\ last.args[1] > 0 /\ last.args[2] > 0 /\ last.args[3] > 0)
        => /\ last.ret[1] < last.args[3]
           /\ InOfOut <= last.args[1] + 1
           /\ (InOfOut = 0) <=> (last.ret[1] = 0)

\* a round trip that asks one unit more than the input it started from
C11_Witness ==
    /\ QuotedOut /\ last.args[1] > 0 /\ last.args[2] > 0 /\ last.args[3] > 0
    /\ last.ret[1] > 0
    /\ InOfOut = last.args[1] + 1

\* a get_amount_in call for an output the pool can pay has just returned
QuotedIn ==
    /\ last.op = "get_amount_in" /\ last.err = "ok"
    /\ last.args[2] > 0 /\ last.args[3] > 0
    /\ 0 < last.args[1] /\ last.args[1] < last.args[3]

\* a pair holding the quoted reserves, reserve_in as reserve0
QuotedPair == [InitPair EXCEPT !.reserve0 = last.args[2], !.reserve1 = last.args[3]]

\* what swap(0, amount_out) has read when it reaches its checks
QuotedSwap ==
    [reserve0 |-> last.args[2], reserve1 |-> last.args[3],
     amount0_out |-> 0, amount1_out |-> last.args[1]]

\* C12: for reserves rIn, rOut > 0 and an output 0 < y < rOut, a trader who
\* deposits get_amount_in(y, rIn, rOut) and calls swap for y passes the pool's
\* checks and its fee-adjusted K check; equivalently get_amount_out of the
\* quoted input is at least y.
C12_QuotedInputPassesK ==
    QuotedIn =>
        /\ get_amount_out_internal(last.ret[1], last.args[2], last.args[3])
               >= last.args[1]
        /\ swap(QuotedPair, 0, last.args[1]) = "ok"
        /\ swap_settle(QuotedPair, QuotedSwap, last.args[2] + last.ret[1],
                       last.args[3] - last.args[1]).err = "ok"

\* a quoted input that is the least one: one unit less buys less than y
C12_Witness ==
    /\ QuotedIn
    /\ last.ret[1] > 1
    /\ get_amount_out_internal(last.ret[1] - 1, last.args[2], last.args[3])
           < last.args[1]

\* this step ends a call of buy() or sell()
TradeEnds == last'.op \in {"buy", "sell"} /\ last' # last

\* this step lets a buy() or a sell() in as far as its call of the token
TradeBegins == Depth' > Depth /\ Top'.op \in {"buy", "sell"}

\* C13: while the status is Graduated or Refunding every buy() and sell()
\* fails with CurveNotActive and leaves the storage as it was, and no step
\* changes tokens_sold or cspr_raised.
C13_TradingOnlyWhileActive ==
    [][bc.status # STATUS_ACTIVE =>
        /\ ~TradeBegins
        /\ TradeEnds => (last'.err = "CurveNotActive" /\ bc' = bc)
        /\ bc'.tokens_sold = bc.tokens_sold
        /\ bc'.cspr_raised = bc.cspr_raised
    ]_vars

\* a graduated curve that has sold tokens has turned a sell away
C13_Witness ==
    /\ bc.status = STATUS_GRADUATED
    /\ bc.tokens_sold > 0
    /\ last.op = "sell"
    /\ last.args[1] > 0
    /\ last.err = "CurveNotActive"

\* C14: claim_refund() pays only when the status is not Graduated, the
\* deadline has passed and the caller's purchases are not zero.  Called
\* outside any other entry point it fails with RefundNotAvailable when the
\* status is Graduated, else with DeadlineNotReached when now < deadline, else
\* with NoRefundAvailable when purchases[caller] = 0; and a claim_refund()
\* that fails leaves the storage of the curve (status, purchases and the
\* rest) as it was: a failed first attempt does not leave the status Refunding.
C14_RefundPreconditions ==
    [][\A a \in Accounts : ClaimRefundBy(a) =>
        /\ last'.err = "ok" =>
              /\ bc.status # STATUS_GRADUATED
              /\ now >= bc.deadline
              /\ bc.purchases[a] > 0
        /\ Depth = 0 =>
              /\ bc.status = STATUS_GRADUATED => last'.err = "RefundNotAvailable"
              /\ (bc.status # STATUS_GRADUATED /\ now < bc.deadline) =>
                     last'.err = "DeadlineNotReached"
              /\ (bc.status # STATUS_GRADUATED /\ now >= bc.deadline
                     /\ bc.purchases[a] = 0) => last'.err = "NoRefundAvailable"
              /\ last'.err # "ok" => (bc' = bc /\ refunded' = refunded)
        /\ last'.err # "ok" =>
              (bc' = Snapshot.bc /\ refunded' = Snapshot.refunded)
    ]_vars

\* after the deadline an account without purchases has claimed on a curve
\* that holds other purchases, and the curve is still Active
C14_Witness ==
    /\ last.op = "claim_refund"
    /\ last.err = "NoRefundAvailable"
    /\ now >= bc.deadline
    /\ bc.purchases[last.caller] = 0
    /\ bc.cspr_raised > 0
    /\ bc.status = STATUS_ACTIVE

SellVerdict(s, token_amount) ==
    IF token_amount = 0 THEN "InvalidAmount"
    ELSE IF token_amount > s.tokens_sold THEN "InsufficientTokens"
    ELSE LET gross == calculate_cspr_for_tokens(s.curve_type, token_amount,
                          s.tokens_sold, s.total_supply, s.base_price, s.max_price)
             net_return == gross - (gross * s.platform_fee_bps) \div 10000
                                 - (gross * s.creator_fee_bps) \div 10000
         IN  IF net_return > s.cspr_raised THEN "InsufficientLiquidity" ELSE "ok"

\* C16: on an Active curve, called outside any other entry point,
\* sell(token_amount) fails with InvalidAmount when token_amount = 0, else
\* with InsufficientTokens when token_amount > tokens_sold, else with
\* InsufficientLiquidity when the net return exceeds cspr_raised, and gets as
\* far as burning only when none of the three holds; every sell that fails
\* leaves the storage (tokens_sold, cspr_raised, accumulated_fees and the
\* rest) as it was before the deploy.
C16_SellFailures ==
    [][/\ (Depth = 0 /\ bc.status = STATUS_ACTIVE) =>
            /\ (last'.op = "sell" /\ last' # last) =>
                   /\ last'.err = SellVerdict(bc, last'.args[1])
                   /\ last'.err # "ok"
                   /\ bc' = bc
            /\ (Depth' = 1 /\ Top'.op = "sell") =>
                   SellVerdict(bc, Top'.args[1]) = "ok"
       /\ (last'.op = "sell" /\ last'.err # "ok" /\ last' # last) =>
            bc' = Snapshot.bc
    ]_vars

\* a sell of tokens the curve has sold was turned away because the curve
\* holds less than the net return
C16_Witness ==
    /\ last.op = "sell"
    /\ last.err = "InsufficientLiquidity"
    /\ bc.status = STATUS_ACTIVE
    /\ 0 < last.args[1] /\ last.args[1] <= bc.tokens_sold

\* z is the integer floor square root of y
IsFloorRoot(z, y) == z * z <= y /\ y < (z + 1) * (z + 1)

\* the first deposit of 10000 and 10000, as mint() computes it
FirstMintOf10000 == mint(InitPair, "a1", [reserve0 |-> 0, reserve1 |-> 0], 10000, 10000)

\* C17: a mint(to) that succeeds while lp_total_supply is 0, with amounts
\* amount0 and amount1 deposited since the reserves were last written,
\* credits floor(sqrt(amount0 * amount1)) - 1000 LP tokens to `to` and 1000
\* to the zero key, returns the former, sets lp_total_supply to the root and
\* the reserves to the balances; sqrt(y) is the integer floor square root of
\* y, for every y it is applied to.  A first deposit of 10000 and 10000 mints
\* 9000 of a supply of 10000.
C17_FirstMint ==
    /\ [](last.op = "sqrt" =>
            /\ IsFloorRoot(last.ret[1], last.args[1])
            /\ FirstMintOf10000.err = "ok"
            /\ FirstMintOf10000.ret = <<9000>>
            /\ FirstMintOf10000.st.lp_total_supply = 10000
            /\ FirstMintOf10000.st.lp_balances[ZERO_KEY] = 1000)
    /\ [][(Depth = 1 /\ Top.op = "mint" /\ pair.lp_total_supply = 0
             /\ last'.op = "mint" /\ last'.err = "ok") =>
            LET to == Top.args[1]
                amount0 == bal.t0 - Top.l.reserve0
                amount1 == bal.t1 - Top.l.reserve1
                root == last'.ret[1] + MINIMUM_LIQUIDITY
            IN  /\ IsFloorRoot(root, amount0 * amount1)
                /\ pair'.lp_balances =
                       [pair.lp_balances EXCEPT ![ZERO_KEY] = MINIMUM_LIQUIDITY,
                                                ![to] = root - MINIMUM_LIQUIDITY]
                /\ pair'.lp_total_supply = root
                /\ pair'.reserve0 = bal.t0
                /\ pair'.reserve1 = bal.t1
      ]_vars

\* the first mint of a pair has returned, for a product that is no square
C17_Witness ==
    /\ last.op = "mint" /\ last.err = "ok"
    /\ pair.lp_total_supply = last.ret[1] + MINIMUM_LIQUIDITY
    /\ pair.lp_balances[ZERO_KEY] = MINIMUM_LIQUIDITY
    /\ pair.lp_total_supply * pair.lp_total_supply < pair.reserve0 * pair.reserve1

\* C18: once a mint has succeeded, the zero key holds at least 1000 LP tokens
\* and lp_total_supply is at least 1000 in every later state: a supply that
\* is not zero never falls to zero again, so the first-deposit branch of
\* mint() is not taken a second time.
C18_MinimumLiquidityLocked ==
    /\ [](pair.lp_total_supply # 0 =>
            /\ pair.lp_balances[ZERO_KEY] >= MINIMUM_LIQUIDITY
            /\ pair.lp_total_supply >= MINIMUM_LIQUIDITY)
    /\ [][pair.lp_total_supply # 0 =>
            /\ pair'.lp_total_supply # 0
            /\ pair'.lp_balances[ZERO_KEY] >= pair.lp_balances[ZERO_KEY]
         ]_vars

\* every LP token but the locked ones has been burned
C18_Witness ==
    /\ last.op = "burn" /\ last.err = "ok"
    /\ pair.lp_total_supply = MINIMUM_LIQUIDITY
    /\ pair.lp_balances[ZERO_KEY] = MINIMUM_LIQUIDITY
    /\ pair.reserve0 > 0

\* the factory holds a pair for every hop of the path
PathHasPairs(path) ==
    \A i \in 1 .. Len(path) - 1 :
        \E k \in PairKeys : router.factory[k] = {path[i], path[i + 1]}

\* the pair the factory holds for two tokens
PairOfTokens(token_a, token_b) ==
    CHOOSE k \in PairKeys : router.factory[k] = {token_a, token_b}

\* the reserve a pair holds of one of its tokens
ReserveOf(pair_key, token) ==
    IF router.pools[pair_key].token0 = token THEN router.pools[pair_key].reserve0
    ELSE router.pools[pair_key].reserve1

RouterStep(op) == last'.op = op /\ (last' # last \/ router' # router)

\* what the step added to a holder's balance of a token
Received(token, holder) ==
    router'.balances[token][holder] - router.balances[token][holder]

\* the step issued no call that changes storage and left every pair, balance
\* and allowance as it was
NothingMoved == router' = [router EXCEPT !.issued = <<>>]

\* C20: swap_exact_tokens_for_tokens fails with InsufficientOutputAmount when
\* the last of the amounts it computes is below amount_out_min, and
\* swap_tokens_for_exact_tokens fails with ExcessiveInputAmount when the
\* first of the amounts it computes is above amount_in_max; in both cases it
\* has issued no token transfer and no swap of a pair.  When either succeeds
\* it returns the amounts it computed, the recipient has received the last of
\* them (at least amount_out_min, resp. exactly amount_out) and the trader
\* has paid the first of them (exactly amount_in, resp. at most
\* amount_in_max).
C20_SlippageBeforeTransfers ==
    [][/\ RouterStep("swap_exact_tokens_for_tokens") =>
            LET amount_out_min == last'.args[2]
                path == last'.args[3]
                a == get_amounts_out(router, last'.args[1], path)
            IN  /\ (a.err = "ok" /\ a.ret[Len(a.ret)] < amount_out_min) =>
                      (last'.err = "InsufficientOutputAmount" /\ NothingMoved)
                /\ last'.err = "InsufficientOutputAmount" => NothingMoved
                /\ last'.err = "ok" =>
                      /\ last'.ret = a.ret
                      /\ last'.ret[Len(path)] >= amount_out_min
                      /\ Received(path[Len(path)], last'.args[4]) = last'.ret[Len(path)]
                      /\ Received(path[1], last'.caller) = 0 - last'.ret[1]
       /\ RouterStep("swap_tokens_for_exact_tokens") =>
            LET amount_in_max == last'.args[2]
                path == last'.args[3]
                a == get_amounts_in(router, last'.args[1], path)
            IN  /\ (a.err = "ok" /\ a.ret[1] > amount_in_max) =>
                      (last'.err = "ExcessiveInputAmount" /\ NothingMoved)
                /\ last'.err = "ExcessiveInputAmount" => NothingMoved
                /\ last'.err = "ok" =>
                      /\ last'.ret = a.ret
                      /\ last'.ret[1] <= amount_in_max
                      /\ last'.ret[Len(path)] = last'.args[1]
                      /\ Received(path[Len(path)], last'.args[4]) = last'.ret[Len(path)]
                      /\ Received(path[1], last'.caller) = 0 - last'.ret[1]
    ]_vars

\* after a swap that went through, a swap along two hops was turned away
\* for its amount_out_min before any call was issued
C20_Witness ==
    /\ last.op = "swap_exact_tokens_for_tokens"
    /\ last.err = "InsufficientOutputAmount"
    /\ Len(last.args[3]) = 3
    /\ router.issued = <<>>
    /\ router.swaps > 0

----------------------------------------------------------------------------
(* curves.rs: the price functions *)

\* the last step was calculate_price(c, sold, supply, base, max) with
\* supply > 0 and base <= max
PriceCalled ==
    /\ last.op = "calculate_price"
    /\ last.args[3] > 0
    /\ last.args[4] <= last.args[5]

\* C21: for every shape, supply > 0 and base <= max, the price at sold = 0
\* is base, and the price at sold = supply is max for Linear and within one
\* unit of max for Sigmoid and Steep
C21_PriceAtTheEnds ==
    PriceCalled =>
        /\ last.err = "ok"
        /\ last.args[2] = 0 => last.ret[1] = last.args[4]
        /\ (last.args[2] = last.args[3] /\ last.args[1] = Linear)
               => last.ret[1] = last.args[5]
        /\ (last.args[2] = last.args[3] /\ last.args[1] \in {Sigmoid, Steep})
               => /\ last.ret[1] >= last.args[5] - 1
                  /\ last.ret[1] <= last.args[5] + 1

C21_Witness ==
    /\ PriceCalled
    /\ last.args = <<Linear, 210, 210, 2, 250>>
    /\ last.ret = <<250>>

\* C22: the price does not fall as more is sold: for all s1 <= s2 <= supply
\* the price at s1 is at most the price at s2, truncations included
C22_PriceMonotone ==
    (PriceCalled /\ last.args[2] <= last.args[3]) =>
        \A s1 \in CurveSolds(last.args[3]) :
            s1 <= last.args[2] =>
                calculate_price(last.args[1], s1, last.args[3], last.args[4],
                                last.args[5]) <= last.ret[1]

TokensForFunds(c, funds_in, sold, supply, base, max) ==
    LET price == calculate_price(c, sold, supply, base, max)
    IN  IF funds_in = 0 \/ supply = 0 \/ price = 0 THEN 0
        ELSE Min((funds_in * TOKEN_DECIMALS) \div price, supply - sold)

\* C24: wherever calculate_tokens_for_cspr returns, it returns
\* min(floor(funds_in * 10^decimals / price), supply - sold), and 0 when
\* funds_in, the supply or the price is 0; and on the fresh Linear market of
\* the scenario (supply 1_000_000 tokens, base 1, max 10, platform fee
\* 100 bps, no creator fee) buy(5000) adds the net 4950 to the funds raised
\* and sells exactly tokens_for_funds(4950)
C24_TokensForFunds ==
    /\ (last.op = "calculate_tokens_for_cspr" /\ last.err = "ok")
          => last.ret[1] = TokensForFunds(last.args[1], last.args[2], last.args[3],
                                          last.args[4], last.args[5], last.args[6])
    /\ (last.op = "buy" /\ last.err = "ok" /\ last.args = <<5000>>)
          => /\ bc.cspr_raised = 4950
             /\ bc.purchases[last.caller] = 4950
             /\ bc.accumulated_fees = 0
             /\ bc.tokens_sold = TokensForFunds(Linear, 4950, 0, ScenarioMarket.total_supply,
                                                ScenarioMarket.base_price,
                                                ScenarioMarket.max_price)
             /\ last.ret = <<bc.tokens_sold>>

C24_Witness ==
    /\ last.op = "buy"
    /\ last.err = "ok"
    /\ last.args = <<5000>>
    /\ bc.tokens_sold = 49500

CurveFunctions ==
    {"calculate_price", "calculate_tokens_for_cspr", "calculate_cspr_for_tokens",
     "calculate_curve_integral"}

\* C25: the curve functions have no failure mode: whatever the prices, the
\* supply and the amounts, each call returns a value
C25_CurveFunctionsNeverAbort ==
    last.op \in CurveFunctions => last.err = "ok"

----------------------------------------------------------------------------
(* Divisors *)

\* C26: no call of the router's quote functions aborts on a zero divisor,
\* or on the subtraction that forms the divisor
C26_NoZeroDivisor ==
    last.op \in {"get_amount_out", "get_amount_in"} => last.err = "ok"

----------------------------------------------------------------------------
(* Promo budget *)

\* the milestones reached: the tiers t with funds_raised * 100 / threshold >= t
TiersReached(s) ==
    {t \in {25, 50, 75, 100} :
        /\ s.graduation_threshold # 0
        /\ (s.cspr_raised * 100) \div s.graduation_threshold >= t}

Entitled(s) ==
    IF TiersReached(s) = {} THEN 0
    ELSE LET tier == CHOOSE t \in TiersReached(s) : \A u \in TiersReached(s) : u <= t
         IN  (s.promo_budget * tier) \div 100

PromoClaimEnds == last'.op = "claim_promo_milestone"

\* a claim that succeeds pays what is newly claimable and records it
PromoClaimPays ==
    (PromoClaimEnds /\ last'.err = "ok") =>
        /\ last'.caller = bc.creator
        /\ Entitled(bc) > bc.promo_released
        /\ last'.ret = <<Entitled(bc) - bc.promo_released>>
        /\ bc' = [bc EXCEPT !.promo_released = Entitled(bc)]

\* a claim of the creator with nothing newly claimable fails
PromoClaimFails ==
    (PromoClaimEnds /\ last'.caller = bc.creator /\ Entitled(bc) <= bc.promo_released) =>
        /\ last'.err = "MilestoneNotUnlocked"
        /\ bc' = bc

\* C27: a successful claim_promo_milestone pays entitled - promo_released and
\* sets promo_released to entitled; the creator's claim fails with
\* MilestoneNotUnlocked, the state unchanged, when nothing is newly
\* claimable; promo_released never decreases and stays within 0 and
\* promo_budget
C27_PromoRelease ==
    /\ [][/\ PromoClaimPays
          /\ PromoClaimFails
          /\ (PromoClaimEnds /\ last'.err # "ok") => bc' = bc
          /\ bc'.promo_released >= bc.promo_released]_vars
    /\ [](bc.promo_released >= 0 /\ bc.promo_released <= bc.promo_budget)

\* the creator claims a second milestone after more funds came in
C27_Witness ==
    /\ last.op = "claim_promo_milestone"
    /\ last.err = "ok"
    /\ last.ret = <<2>>
    /\ bc.promo_released = 3

----------------------------------------------------------------------------
(* Solvency of the market *)

\* C28: the funds held (paid in by buys, less platform fees, sell returns,
\* refunds and withdrawn creator fees) cover the accumulated creator fees and
\* every buyer's recorded contribution
C28_Solvent ==
    bc.held >= bc.accumulated_fees + SumOver(bc.purchases, Accounts)

----------------------------------------------------------------------------
(* Round trips *)

\* this step ends, with success, the sale of the tokens a buy has just minted
SoldBack ==
    /\ Depth = 1
    /\ Top.pc = "sell_burn"
    /\ last'.op = "sell"
    /\ last'.err = "ok"

\* C29: a buy followed at once by the successful sale of exactly the tokens
\* it minted returns at most what the buy paid
C29_RoundTripNotProfitable ==
    [][SoldBack => last'.ret[1] <= Top.paid]_vars

----------------------------------------------------------------------------
(* The order of burn and writes in sell *)

\* sell has called the token's burn and burn has not returned
Burning == Depth > 0 /\ Top.pc = "sell_burn"

\* what sell writes and pays from
Funds(s) == <<s.tokens_sold, s.cspr_raised, s.accumulated_fees, s.held>>

----------------------------------------------------------------------------
(* Completion of sell *)

\* C31: a sell that has passed its guards and whose burn has returned
\* completes unless a transfer fails: the decrement of cspr_raised does not
\* underflow, and cspr_raised + accumulated_fees falls by exactly what leaves
\* the contract, cspr_to_return + platform_fee
C31_SellCompletes ==
    [][(/\ Burning
        /\ last'.op = "sell"
        /\ last'.depth = Depth - 1
        /\ last'.err \notin {"CalleeReverted", "TransferFailed"})
          => /\ last'.err = "ok"
             /\ bc.cspr_raised + bc.accumulated_fees
                  - (bc'.cspr_raised + bc'.accumulated_fees)
                = Top.l.cspr_to_return + Top.l.platform_fee]_vars

----------------------------------------------------------------------------
(* What a buy charges and what it mints *)

\* C32: every successful buy mints floor(net * 10^decimals / price) tokens,
\* the price taken at tokens_sold and net being the funds it adds to
\* cspr_raised; it never keeps the funds and mints fewer
C32_BuyMintsWhatIsPaidFor ==
    [][(Depth = 1 /\ Top.op = "buy" /\ last'.op = "buy" /\ last'.err = "ok") =>
        LET s == tx.saved.bc
            net == bc'.cspr_raised - s.cspr_raised
            price == calculate_price(s.curve_type, s.tokens_sold, s.total_supply,
                                     s.base_price, s.max_price)
        IN  last'.ret[1] = (net * TOKEN_DECIMALS) \div price
    ]_vars

----------------------------------------------------------------------------
(* Failures of swap *)

\* this step ends a swap that was called by a deploy and has made no transfer
SwapRefused == Depth = 0 /\ last'.op = "swap" /\ last'.depth = 0

\* this step ends a swap that was called by a deploy and has made its transfers
SwapJudged ==
    /\ Depth = 1
    /\ Top.pc = "swap_transfer"
    /\ last'.op = "swap"
    /\ last'.depth = 0
    /\ last'.err # "CalleeReverted"

BothInputsZero ==
    /\ InferredIn(bal.t0, Top.l.reserve0, Top.l.amount0_out) = 0
    /\ InferredIn(bal.t1, Top.l.reserve1, Top.l.amount1_out) = 0

\* C33: swap fails with InsufficientOutputAmount when both outputs are zero,
\* with InsufficientLiquidity when an output is at least its reserve, and,
\* the transfers made, with InsufficientInputAmount when both inferred
\* inputs are zero; a swap that fails leaves the reserves, the token
\* balances and the LP ledger as they were before it, the optimistic
\* transfers undone
C33_SwapFailures ==
    [][/\ (SwapRefused /\ last'.args[1] = 0 /\ last'.args[2] = 0)
             => last'.err = "InsufficientOutputAmount"
       /\ (SwapRefused /\ ~(last'.args[1] = 0 /\ last'.args[2] = 0)
                       /\ (last'.args[1] >= pair.reserve0 \/ last'.args[2] >= pair.reserve1))
             => last'.err = "InsufficientLiquidity"
       /\ (Depth = 1 /\ Top.pc = "swap_transfer")
             => (Top.l.amount0_out < Top.l.reserve0 /\ Top.l.amount1_out < Top.l.reserve1)
       /\ (SwapJudged /\ BothInputsZero) => last'.err = "InsufficientInputAmount"
       /\ (SwapRefused /\ last'.err # "ok") => (pair' = pair /\ bal' = bal)
       /\ (SwapJudged /\ last'.err # "ok")
             => (pair' = tx.saved.pair /\ bal' = tx.saved.bal)]_vars

\* a swap that took tokens out and brought none in failed, and the pair holds
\* again what it held
C33_Witness ==
    /\ last.op = "swap"
    /\ last.err = "InsufficientInputAmount"
    /\ pair.reserve0 > 0
    /\ bal.t0 = pair.reserve0
    /\ bal.t1 = pair.reserve1

----------------------------------------------------------------------------
(* The order of the calls of a swap through the router *)

\* the swap of hop i of the path: amounts[i + 1] of path[i + 1], on the side
\* on which the pair records path[i + 1], sent to the pair of the next hop
\* or, by the last hop, to the recipient
HopSwap(amounts, path, to, i) ==
    LET k == PairOfTokens(path[i], path[i + 1])
        out_is_token0 == router.pools[k].token0 = path[i + 1]
    IN  << "swap", k,
           IF out_is_token0 THEN amounts[i + 1] ELSE 0,
           IF out_is_token0 THEN 0 ELSE amounts[i + 1],
           IF i < Len(path) - 1 THEN PairOfTokens(path[i + 1], path[i + 2]) ELSE to >>

\* the calls a swap of amounts along the path issues, in their order
CallsInOrder(caller, amounts, path, to) ==
    [j \in 1 .. Len(path) |->
        IF j = 1
        THEN <<"transfer_from", path[1], caller, PairOfTokens(path[1], path[2]),
               amounts[1]>>
        ELSE HopSwap(amounts, path, to, j - 1)]

\* two calls are the same call
SameCall(c, d) == c[1] = d[1] /\ c = d

\* whom a call sends tokens to
CallRecipient(c) == IF c[1] = "transfer_from" THEN c[4] ELSE c[5]

IsPrefix(s, t) == Len(s) <= Len(t) /\ \A j \in 1 .. Len(s) : SameCall(s[j], t[j])

\* the calls issued by the entry point that ends in this step, whose amounts
\* a were computed and accepted
IssuedInOrder(a, path) ==
    LET calls == CallsInOrder(last'.caller, a.ret, path, last'.args[4])
    IN  /\ router'.issued # <<>>
        /\ IsPrefix(router'.issued, calls)
        /\ last'.err = "ok" => Len(router'.issued) = Len(calls)
        /\ \A j \in 1 .. Len(router'.issued) :
               CallRecipient(router'.issued[j]) \in PairKeys \cup {last'.args[4]}

\* C34: swap_exact_tokens_for_tokens and swap_tokens_for_exact_tokens over a
\* path of n tokens, once the amounts are computed and accepted, issue one
\* transfer_from of amounts[1] of path[1] from the trader to the first pair,
\* before any swap, and then the swaps of the n - 1 hops in the order of
\* the path, hop i asking for amounts[i + 1] of path[i + 1] on the side of
\* the pair that holds it, to be sent to the pair of the next hop, or to
\* `to` by the last hop; no call sends a token to the router.  A call that
\* fails on the way has issued a beginning of that sequence.
C34_CallsInPathOrder ==
    [][/\ RouterStep("swap_exact_tokens_for_tokens") =>
            LET path == last'.args[3]
                a == get_amounts_out(router, last'.args[1], path)
            IN  IF a.err = "ok" /\ a.ret[Len(a.ret)] >= last'.args[2]
                THEN IssuedInOrder(a, path)
                ELSE router'.issued = <<>>
       /\ RouterStep("swap_tokens_for_exact_tokens") =>
            LET path == last'.args[3]
                a == get_amounts_in(router, last'.args[1], path)
            IN  IF a.err = "ok" /\ a.ret[1] <= last'.args[2]
                THEN IssuedInOrder(a, path)
                ELSE router'.issued = <<>>
    ]_vars

\* a swap for an exact output went over two hops, the second of them through
\* a pair that records the output token as its token0
C34_Witness ==
    /\ last.op = "swap_tokens_for_exact_tokens"
    /\ last.err = "ok"
    /\ Len(last.args[3]) = 3
    /\ Len(router.issued) = 3
    /\ router.issued[1][1] = "transfer_from"
    /\ router.issued[2][5] \in PairKeys
    /\ router.issued[3][3] = last.args[1]
    /\ router.issued[3][4] = 0
    /\ router.issued[3][5] = RouterRecipient

----------------------------------------------------------------------------
(* Quoted outputs and the pair's checks *)

\* a get_amount_out call with an input and reserves above zero has just
\* returned an output above zero
QuotedOutAboveZero ==
    /\ last.op = "get_amount_out" /\ last.err = "ok"
    /\ last.args[1] > 0 /\ last.args[2] > 0 /\ last.args[3] > 0
    /\ last.ret[1] > 0

\* what swap(0, out) has read when it reaches its checks, out the quoted
\* output
QuotedOutSwap ==
    [reserve0 |-> last.args[2], reserve1 |-> last.args[3],
     amount0_out |-> 0, amount1_out |-> last.ret[1]]

\* the pair accepts the swap for the quoted output once the input is in
QuoteAccepted ==
    QuotedOutAboveZero =>
        /\ last.ret[1] < last.args[3]
        /\ swap(QuotedPair, 0, last.ret[1]) = "ok"
        /\ swap_settle(QuotedPair, QuotedOutSwap, last.args[2] + last.args[1],
                       last.args[3] - last.ret[1]).err = "ok"

\* the hops of the path go through pairs that differ from one another
DistinctPairs(path) ==
    \A i, j \in 1 .. Len(path) - 1 :
        i # j => PairOfTokens(path[i], path[i + 1]) # PairOfTokens(path[j], path[j + 1])

\* this step ends a swap_exact_tokens_for_tokens along a path of distinct
\* pairs whose amounts were computed, are above zero and were accepted, by a
\* trader who holds the input and has approved it
QuotedSwapCalled ==
    /\ RouterStep("swap_exact_tokens_for_tokens")
    /\ LET path == last'.args[3]
           a == get_amounts_out(router, last'.args[1], path)
       IN  /\ a.err = "ok"
           /\ \A i \in 1 .. Len(a.ret) : a.ret[i] > 0
           /\ a.ret[Len(a.ret)] >= last'.args[2]
           /\ DistinctPairs(path)
           /\ router.allowances[path[1]] >= last'.args[1]
           /\ router.balances[path[1]][last'.caller] >= last'.args[1]

\* C35: for reserves rIn, rOut > 0 and an input > 0 whose quoted output
\* out = get_amount_out(amountIn, rIn, rOut) is above zero, a pair that holds
\* rIn + amountIn and is asked for out passes its output < reserve check and
\* its fee-adjusted K check; and a swap_exact_tokens_for_tokens along a path
\* of distinct pairs, with the amounts computed before the first hop, goes
\* through every hop.
C35_QuotesAccepted ==
    /\ []QuoteAccepted
    /\ [][QuotedSwapCalled =>
             /\ last'.err = "ok"
             /\ Len(router'.issued) = Len(last'.args[3])]_vars

\* a swap along two hops went through, after swaps that moved the reserves
\* of its pairs
C35_Witness ==
    /\ last.op = "swap_exact_tokens_for_tokens"
    /\ last.err = "ok"
    /\ Len(last.args[3]) = 3
    /\ router.swaps > 1

\* a quote above zero that the pair accepted by the least margin: one unit
\* more of output fails its K check
C35_QuoteWitness ==
    /\ QuotedOutAboveZero
    /\ last.ret[1] + 1 < last.args[3]
    /\ swap_settle(QuotedPair, [QuotedOutSwap EXCEPT !.amount1_out = @ + 1],
                   last.args[2] + last.args[1],
                   last.args[3] - last.ret[1] - 1).err = "K"

----------------------------------------------------------------------------
(* mint() after the first deposit *)

\* this step ends a mint, called by a deploy on a pair that has LP tokens,
\* after its balance_of calls have returned
LaterMintEnds ==
    /\ Depth = 1
    /\ Top.pc = "mint_balance"
    /\ pair.lp_total_supply > 0
    /\ last'.op = "mint"
    /\ last'.depth = 0
    /\ last'.err # "CalleeReverted"

\* the LP tokens such a mint credits
LaterMintLiquidity ==
    LET amount0 == bal.t0 - Top.l.reserve0
        amount1 == bal.t1 - Top.l.reserve1
    IN  Min((amount0 * pair.lp_total_supply) \div Top.l.reserve0,
            (amount1 * pair.lp_total_supply) \div Top.l.reserve1)

\* C36: while lp_total_supply > 0, mint(to) with amount_i = balance_i -
\* reserve_i credits `to` with
\* min(amount0 * lp_total_supply / reserve0, amount1 * lp_total_supply / reserve1),
\* the quotients truncated, returns that number, adds it to lp_total_supply
\* and sets the reserves to the balances; when that number is 0 it fails
\* with InsufficientLiquidityMinted, and the LP ledger and the reserves are
\* as they were.
C36_LaterMint ==
    [][LaterMintEnds =>
          /\ bal.t0 >= Top.l.reserve0 /\ bal.t1 >= Top.l.reserve1
          /\ Top.l.reserve0 > 0 /\ Top.l.reserve1 > 0
          /\ IF LaterMintLiquidity = 0
             THEN /\ last'.err = "InsufficientLiquidityMinted"
                  /\ pair' = tx.saved.pair
                  /\ bal' = bal
             ELSE /\ last'.err = "ok"
                  /\ last'.ret = <<LaterMintLiquidity>>
                  /\ pair'.lp_balances =
                         [pair.lp_balances EXCEPT ![Top.args[1]] = @ + LaterMintLiquidity]
                  /\ pair'.lp_total_supply = pair.lp_total_supply + LaterMintLiquidity
                  /\ pair'.reserve0 = bal.t0
                  /\ pair'.reserve1 = bal.t1
                  /\ bal' = bal
      ]_vars

\* a later mint has credited the smaller of two shares that differ: more of
\* one token was deposited than the LP tokens minted stand for
C36_Witness ==
    /\ last.op = "mint" /\ last.err = "ok"
    /\ pair.lp_total_supply = AfterFirstMint.lp_total_supply + last.ret[1]
    /\ ((pair.reserve1 - AfterFirstMint.reserve1) * AfterFirstMint.lp_total_supply)
           \div AfterFirstMint.reserve1 > last.ret[1]

\* the pair after its first mint is the one mint() makes of a deposit of
\* 2100 and 1050 into an empty pair
AfterFirstMintIsMinted ==
    mint(InitPair, "a1", [reserve0 |-> 0, reserve1 |-> 0], 2100, 1050).st = AfterFirstMint

----------------------------------------------------------------------------
(* burn() *)

\* the share of a balance that the LP tokens held by the pair s stand for
BurnShare(s, balance) ==
    (s.lp_balances[SELF_KEY] * balance) \div s.lp_total_supply

\* this step ends a burn that a deploy called and that made no transfer
BurnRefused == OnPair /\ Depth = 0 /\ last'.op = "burn" /\ last'.depth = 0

\* this step lets a burn that a deploy called in as far as its transfers
BurnEnters == OnPair /\ Depth = 0 /\ Depth' = 1 /\ Top'.op = "burn"

\* this step is the return of a burn that a deploy called
BurnEnds ==
    /\ Depth = 1
    /\ Top.pc = "burn_transfer"
    /\ last'.op = "burn"
    /\ last'.depth = 0
    /\ last'.err = "ok"

\* what a burn that returns has done, up to the reserves
BurnPays ==
    LET s == tx.saved
        to == Top.args[1]
        amount0 == BurnShare(s.pair, s.bal.t0)
        amount1 == BurnShare(s.pair, s.bal.t1)
    IN  /\ last'.ret = <<amount0, amount1>>
        /\ bal' = [t0 |-> Sent(s.bal.t0, to, amount0),
                   t1 |-> Sent(s.bal.t1, to, amount1)]
        /\ pair'.lp_total_supply
               = s.pair.lp_total_supply - s.pair.lp_balances[SELF_KEY]
        /\ pair'.lp_balances = [s.pair.lp_balances EXCEPT ![SELF_KEY] = 0]

\* a burn of a pair that has LP tokens fails exactly when one of the two
\* amounts is zero, with InsufficientLiquidityBurned, and then changes
\* nothing; a burn of a pair without LP tokens aborts on the division
BurnFails ==
    /\ (BurnRefused /\ pair.lp_total_supply > 0) =>
          /\ last'.err = "InsufficientLiquidityBurned"
          /\ BurnShare(pair, bal.t0) = 0 \/ BurnShare(pair, bal.t1) = 0
          /\ pair' = pair
          /\ bal' = bal
    /\ (BurnRefused /\ pair.lp_total_supply = 0) =>
          (last'.err = "Panic" /\ pair' = pair /\ bal' = bal)
    /\ BurnEnters =>
          /\ pair.lp_total_supply > 0
          /\ BurnShare(pair, bal.t0) > 0
          /\ BurnShare(pair, bal.t1) > 0

\* C37 as it is stated: a burn that succeeds sets each reserve to balance_i -
\* amount_i, whoever the recipient is
C37_Original ==
    [][/\ BurnFails
       /\ BurnEnds =>
            /\ BurnPays
            /\ pair'.reserve0 = tx.saved.bal.t0 - BurnShare(tx.saved.pair, tx.saved.bal.t0)
            /\ pair'.reserve1 = tx.saved.bal.t1 - BurnShare(tx.saved.pair, tx.saved.bal.t1)
      ]_vars

\* C37: burn(to), with L the LP tokens the pair itself holds, pays
\* amount_i = L * balance_i / lp_total_supply, truncated, of each token's
\* actual balance to `to`, returns the two amounts, takes L from
\* lp_total_supply and from the pair's own LP balance, and sets each reserve
\* to the balance the pair holds after the transfers: balance_i - amount_i
\* when `to` is not the pair itself, balance_i when it is.  When an amount
\* is zero it fails with InsufficientLiquidityBurned and the LP ledger, the
\* balances and the reserves are as they were.
C37_Burn ==
    [][/\ BurnFails
       /\ BurnEnds =>
            /\ BurnPays
            /\ pair'.reserve0 = bal'.t0
            /\ pair'.reserve1 = bal'.t1
            /\ Top.args[1] # SELF_KEY =>
                 /\ pair'.reserve0
                       = tx.saved.bal.t0 - BurnShare(tx.saved.pair, tx.saved.bal.t0)
                 /\ pair'.reserve1
                       = tx.saved.bal.t1 - BurnShare(tx.saved.pair, tx.saved.bal.t1)
            /\ Top.args[1] = SELF_KEY =>
                 /\ pair'.reserve0 = tx.saved.bal.t0
                 /\ pair'.reserve1 = tx.saved.bal.t1
      ]_vars

\* a burn paid an account different amounts of the two tokens and left LP
\* tokens other than the locked ones
C37_Witness ==
    /\ last.op = "burn" /\ last.err = "ok"
    /\ last.args[1] = "a1"
    /\ last.ret[1] # last.ret[2]
    /\ pair.lp_balances[SELF_KEY] = 0
    /\ pair.reserve0 = bal.t0

----------------------------------------------------------------------------
(* sync() and skim() *)

\* the LP ledger of a pair
LpLedger(p) == <<p.lp_total_supply, p.lp_balances, p.lp_allowances>>

\* what the pair holds of a token above its reserve
Surplus(balance, reserve) == IF balance > reserve THEN balance - reserve ELSE 0

\* this step is a sync: the reserves are the balances, which did not move,
\* and the LP ledger is as it was
SyncWrites ==
    last'.op = "sync" =>
        /\ pair'.reserve0 = bal.t0
        /\ pair'.reserve1 = bal.t1
        /\ bal' = bal
        /\ LpLedger(pair') = LpLedger(pair)

\* this step is a skim: the surplus of each token went to `to`, and the
\* reserves and the LP ledger are as they were
SkimSends ==
    last'.op = "skim" =>
        /\ last'.err = "ok"
        /\ bal'.t0 = Sent(bal.t0, last'.args[1], Surplus(bal.t0, pair.reserve0))
        /\ bal'.t1 = Sent(bal.t1, last'.args[1], Surplus(bal.t1, pair.reserve1))
        /\ pair' = pair

\* after a mint, burn, swap or sync that succeeded the reserves are the
\* balances
ReservesAreBalances ==
    (last'.op \in {"mint", "burn", "swap", "sync"} /\ last'.err = "ok") =>
        (pair'.reserve0 = bal'.t0 /\ pair'.reserve1 = bal'.t1)

\* C38 as it is stated: after a skim, whoever the recipient is, no balance is
\* above its reserve
C38_Original ==
    [][/\ SyncWrites
       /\ SkimSends
       /\ last'.op = "skim" =>
             (bal'.t0 <= pair'.reserve0 /\ bal'.t1 <= pair'.reserve1)
       /\ ReservesAreBalances]_vars

\* C38: sync sets reserve_i to the pair's actual balance of token i and
\* leaves the LP ledger as it was; skim(to) transfers
\* max(0, balance_i - reserve_i) of each token to `to` and leaves the
\* reserves and the LP ledger as they were, so that afterwards
\* balance_i <= reserve_i when `to` is not the pair itself, while a skim to
\* the pair itself leaves the balances as they were; and after every
\* successful mint, burn, swap or sync reserve_i equals balance_i.
C38_Reconciliation ==
    [][/\ SyncWrites
       /\ SkimSends
       /\ (last'.op = "skim" /\ last'.args[1] # SELF_KEY) =>
             (bal'.t0 <= pair'.reserve0 /\ bal'.t1 <= pair'.reserve1)
       /\ (last'.op = "skim" /\ last'.args[1] = SELF_KEY) => bal' = bal
       /\ ReservesAreBalances]_vars

\* a pair whose first mint took 1050 of each token has been sent a third
\* deposit, and a skim to an account has left it with its reserves
C38_Witness ==
    /\ last.op = "skim" /\ last.err = "ok"
    /\ last.args[1] = "a1"
    /\ deposits = 3
    /\ pair.lp_total_supply = 1050
    /\ pair.reserve0 = 1050 /\ pair.reserve1 = 1050
    /\ bal.t0 = 1050 /\ bal.t1 = 1050

----------------------------------------------------------------------------
(* The value of an LP token *)

\* this step is the successful return of a mint, burn or swap that a deploy
\* called on a pair that has LP tokens
LiquidityEventEnds ==
    /\ Depth = 1
    /\ Top.op \in {"mint", "burn", "swap"}
    /\ tx.saved.pair.lp_total_supply > 0
    /\ last'.op = Top.op
    /\ last'.depth = 0
    /\ last'.err = "ok"

\* reserve0 * reserve1 / lp_total_supply^2 of q is at least that of p
ShareValueGe(q, p) ==
    ProductGe(q.reserve0 * q.reserve1, p.lp_total_supply * p.lp_total_supply,
              p.reserve0 * p.reserve1, q.lp_total_supply * q.lp_total_supply)

\* the pair p once `owner` has sent the pair `amount` LP tokens
SentToPair(p, owner, amount) ==
    IF owner = SELF_KEY THEN p
    ELSE transfer_lp_internal(p, owner, SELF_KEY, amount).st

\* this step is the return of a mint after which the LP tokens just minted
\* are all that the pair can be made to hold: burning them, with nothing
\* in between, pays no more of either token than the mint took in
MintThenBurn ==
    (LiquidityEventEnds /\ Top.op = "mint" /\ pair.lp_balances[SELF_KEY] = 0) =>
        LET amount0 == bal.t0 - Top.l.reserve0
            amount1 == bal.t1 - Top.l.reserve1
            r == burn(SentToPair(pair', Top.args[1], last'.ret[1]), bal'.t0, bal'.t1)
        IN  r.err = "ok" => (r.ret[1] <= amount0 /\ r.ret[2] <= amount1)

\* C39: for every successful mint after the first deposit, every burn and
\* every swap, with r0, r1, S the reserves and lp_total_supply before and
\* r0', r1', S' after, r0' * r1' * S * S >= r0 * r1 * S' * S'; and a burn of
\* exactly the LP tokens a mint has just minted returns at most what was
\* deposited of each token.
C39_ShareValueNeverFalls ==
    [][/\ LiquidityEventEnds => ShareValueGe(pair', tx.saved.pair)
       /\ MintThenBurn]_vars

\* a mint into a pair that had LP tokens has credited the pair itself, which
\* held none: a burn would now take exactly the LP tokens minted
C39_Witness ==
    /\ last.op = "mint" /\ last.err = "ok"
    /\ last.args[1] = SELF_KEY
    /\ pair.lp_balances[SELF_KEY] = last.ret[1]
    /\ pair.lp_total_supply > last.ret[1] + MINIMUM_LIQUIDITY
    /\ burn(pair, bal.t0, bal.t1).err = "ok"

\* a burn has returned amounts that were truncated: the LP tokens left are
\* worth more than before
C39_BurnWitness ==
    /\ last.op = "burn" /\ last.err = "ok"
    /\ last.args[1] = "a1"
    /\ last.ret[1] = 684
    /\ pair.reserve0 = 1416

----------------------------------------------------------------------------
(* Quotes and execution *)

\* the last step was a quote by op for an amount, and this step lets the
\* trade of that amount by the same account in, in the state the quote was
\* given in
QuoteThenTrade(quote, trade) ==
    /\ last.op = quote
    /\ last.err = "ok"
    /\ Depth = 0
    /\ Depth' = 1
    /\ Top'.op = trade
    /\ Top'.caller = last.caller
    /\ Top'.args = last.args

\* C40: in an Active market, get_quote_buy(x) returns the number of tokens
\* that a buy(x) executed in the same state mints, and get_quote_sell(t)
\* returns the funds that a sell(t) executed in the same state pays to the
\* seller
C40_QuotesAgreeWithExecution ==
    [][/\ QuoteThenTrade("get_quote_buy", "buy") =>
             Top'.l.tokens_to_buy = last.ret[1]
       /\ (QuoteThenTrade("get_quote_sell", "sell")
             /\ sell_update(bc', Top'.l).err = "ok") =>
             Top'.l.cspr_to_return = last.ret[1]
      ]_vars

=============================================================================
